---- MODULE Spec2Model ----
(***************************************************************************)
(* Model of the pnpfeeder control core (lib/pnpfeeder) with the firmware's *)
(* servo, input and config-store collaborators (firmware/src).             *)
(*                                                                         *)
(* Tasks are modelled at the granularity of their await points: the        *)
(* dispatcher (GCodeHandler) and one actor per feeder (Feeder::run)        *)
(* exchange FeederCommands and responses over two queues per feeder.       *)
(*                                                                         *)
(* A Value (FixedI32<U16>) is identified with the decimal numeral that     *)
(* parses to it and that Display prints for it; the model keeps it as an   *)
(* integer count of thousandths (2 mm = 2000, 107.5 degrees = 107500).     *)
(* Durations are in milliseconds.  An Instant is kept relative: the        *)
(* recognizer's last event carries its age, which is what                  *)
(* saturating_duration_since computes from it.                             *)
(*                                                                         *)
(* Spec is the control core.  Three further specifications share its       *)
(* variables and start from the state after construction: ReaderSpec feeds *)
(* bytes to the USB LineReader, LinkSpec runs GCodeInterface against a     *)
(* host and the dispatcher, RecognizerSpec drives the feedback pulse       *)
(* recognizer by itself.                                                   *)
(***************************************************************************)
EXTENDS Integers, Sequences, FiniteSets, TLC

\* ------------------------------------------------------------------ bounds
\* Events the host sends when the feedback switches are left alone, events it
\* sends when they are operated, changes of the switches, and waits.
MaxEvents == 3
MaxSwitchEvents == 3
MaxEdges == 2
MaxTicks == 1
\* Bytes handed to a LineReader, and the capacity N of its line buffer
\* (LineReader<N>; handle_connection uses N = 64).
MaxBytes == 7
ReaderCapacity == 2
\* Lines M621 N1 in the one packet the host sends them in.
BurstLines == 6
\* Things the bus and the host do: configure, unplug, open or close the
\* port, send a packet.
MaxHostActs == 5
\* Calls of a CharAssembler on its own.
MaxAsmBytes == 5

\* --------------------------------------------------------------- constants
NumFeeders == 2
Feeders == 0 .. (NumFeeders - 1)
Scale == 1000
\* Ages saturate well above MAX_PULSE.
AgeCap == 600
MIN_PULSE == 50
MAX_PULSE == 500
COUNTS_PER_PERIOD == 9804
ChannelCapacity == 2
GCODE_CHANNEL_LEN == 2
\* Pipe::<NoopRawMutex, 256>, and the buffers of handle_connection.
OUTPUT_PIPE_LEN == 256
PACKET_LEN == 64
LineCapacity == 64
StepLength == 2
HoleLength == 4

V(n) == n * Scale

Min(a, b) == IF a <= b THEN a ELSE b

\* ------------------------------------------------------------ FeederConfig
FeederConfigDefault ==
    [advanced_angle |-> 135000, half_advanced_angle |-> 107500,
     retract_angle |-> 80000, feed_length |-> 2000, settle_time |-> 300,
     pwm_0 |-> 0, pwm_180 |-> 0,
     ignore_feeback_pin |-> FALSE, always_retract |-> FALSE]

\* PwmServo::new_a: COUNTS_PER_PERIOD / 20 counts per ms, 1 ms and 2 ms.
PwmServoNewLimits ==
    [zero |-> (COUNTS_PER_PERIOD * Scale) \div 20,
     one_eighty |-> 2 * ((COUNTS_PER_PERIOD * Scale) \div 20)]

\* Feeder::new: defaults with the servo's limits.
FeederNewConfig ==
    [FeederConfigDefault EXCEPT !.pwm_0 = PwmServoNewLimits.zero,
                                !.pwm_180 = PwmServoNewLimits.one_eighty]

\* FlashConfigStore::default_config.
FlashDefaultConfig ==
    [advanced_angle |-> 135000, half_advanced_angle |-> 107500,
     retract_angle |-> 80000, feed_length |-> 2000, settle_time |-> 300,
     pwm_0 |-> 490200, pwm_180 |-> 980400,
     ignore_feeback_pin |-> FALSE, always_retract |-> TRUE]

NoConfig == [none |-> TRUE]

\* ------------------------------------------------------------------ errors
\* A Result<Option<FeederConfig>>: err names the Error variant, arg and ch
\* carry its payload (InvalidIndex(usize), InvalidFeedLength(Value),
\* UnsupportedCommand(Word), InvalidArgument(char)).
Ok(cfg) == [ok |-> TRUE, err |-> "", arg |-> 0, ch |-> "", cfg |-> cfg]
Err(e) == [ok |-> FALSE, err |-> e, arg |-> 0, ch |-> "", cfg |-> NoConfig]
ErrArg(e, a) == [ok |-> FALSE, err |-> e, arg |-> a, ch |-> "", cfg |-> NoConfig]
ErrWord(e, ch, a) == [ok |-> FALSE, err |-> e, arg |-> a, ch |-> ch, cfg |-> NoConfig]
OkNone == Ok(NoConfig)

Pending == Err("Pending")

\* ------------------------------------------------------------ FeederCommand
Cmd(type, cfg, angle, has_length, length, override_error, state) ==
    [type |-> type, cfg |-> cfg, angle |-> angle, has_length |-> has_length,
     length |-> length, override_error |-> override_error, state |-> state]

SetConfigCmd(cfg) == Cmd("SetConfig", cfg, 0, FALSE, 0, FALSE, FALSE)
GetConfigCmd == Cmd("GetConfig", NoConfig, 0, FALSE, 0, FALSE, FALSE)
SetServoAngleCmd(angle) == Cmd("SetServoAngle", NoConfig, angle, FALSE, 0, FALSE, FALSE)
AdvanceCmd(has_length, length, override_error) ==
    Cmd("Advance", NoConfig, 0, has_length, length, override_error, FALSE)
EnableCmd(state) == Cmd("Enable", NoConfig, 0, FALSE, 0, FALSE, state)
\* The autonomous advance of handle_feedback_state_change: advance(None, true).
AutoCmd == Cmd("Auto", NoConfig, 0, FALSE, 0, TRUE, FALSE)

\* --------------------------------------------------- servo (PwmServo, Value)
\* PwmLimits::scale_angle as used by PwmServo::set_angle.
ServoSetAngle(angle) ==
    IF angle < 0 \/ angle > V(180) THEN Err("AngleOutOfRange") ELSE OkNone

\* PwmServo::set_pwm_limits.
ServoSetPwmLimits(l) ==
    IF l.zero > V(COUNTS_PER_PERIOD) \/ l.one_eighty > V(COUNTS_PER_PERIOD)
    THEN Err("PwmValueOutOfRange") ELSE OkNone

\* ------------------------------------------------ Feeder: pure parts of advance
\* Rust's % on fixed-point numbers: remainder with the sign of the dividend.
Rem(a, b) == IF a >= 0 THEN a % b ELSE 0 - ((0 - a) % b)

FeedbackBlocksMutant(override_error, ignore_feeback_pin, feedback) == FALSE
FeedbackBlocksMutantStrict(override_error, ignore_feeback_pin, feedback) ==
    (~ override_error) /\ feedback

\* advance: override_error || ignore_feeback_pin, then the feedback read.
FeedbackBlocks(override_error, ignore_feeback_pin, feedback) ==
    (~ (override_error \/ ignore_feeback_pin)) /\ feedback

FeedLengthValidMutant(length) == TRUE

\* advance: length % 2 != 0 is an InvalidFeedLength.
FeedLengthValid(length) == Rem(length, V(StepLength)) = 0

AdvanceLengthMutant(offset, length) == Min(V(HoleLength), length)

\* advance: min(4 - advance_offset, length).
AdvanceLength(offset, length) == Min(V(HoleLength) - offset, length)

AdvanceAngleMutant(cfg, advance_to) == cfg.advanced_angle

\* advance: half angle when the target is 2 mm, the full angle otherwise.
AdvanceAngle(cfg, advance_to) ==
    IF advance_to = V(StepLength) THEN cfg.half_advanced_angle
    ELSE cfg.advanced_angle

ShouldRetractMutant(cfg, advance_to) == advance_to = V(HoleLength)
ShouldRetractMutantAlways(cfg, advance_to) == TRUE

\* advance: always_retract || advance_to == 4.
ShouldRetract(cfg, advance_to) ==
    cfg.always_retract \/ advance_to = V(HoleLength)

FeederSetServoAngleMutant(is_enabled, angle) ==
    [called |-> TRUE, r |-> ServoSetAngle(angle)]

\* Feeder::set_servo_angle.
FeederSetServoAngle(is_enabled, angle) ==
    IF is_enabled THEN [called |-> TRUE, r |-> ServoSetAngle(angle)]
    ELSE [called |-> FALSE, r |-> Err("FeederDisabled")]

\* ------------------------------------------------- FeedbackInputRecognizer
NoEvent == [some |-> FALSE, state |-> FALSE, age |-> 0]
SomeEvent(state) == [some |-> TRUE, state |-> state, age |-> 0]

RecognizerUpdateMutant(last, state) ==
    last.some /\ (~ last.state) /\ last.age >= MIN_PULSE

\* FeedbackInputRecognizer::update: the value it returns.
RecognizerUpdate(last, state) ==
    last.some /\ (~ last.state)
        /\ last.age >= MIN_PULSE /\ last.age <= MAX_PULSE

RecognizerResetMutant(last) == last

\* FeedbackInputRecognizer::reset: the event recorded afterwards.
RecognizerReset(last) == NoEvent

\* ----------------------------------------------------------- Word and Line
Word(letter, value) == [letter |-> letter, value |-> value]
NoWord == Word("", 0)
\* A parsed Line: an optional command word and its argument words.
Line(has_command, command, arguments) ==
    [has_command |-> has_command, command |-> command, arguments |-> arguments]

FirstBadLetterMutant(arguments, allowed) == ""

\* The letter of the first argument that is not in allowed, "" when all are:
\* the `letter => return Err(Error::InvalidArgument(letter))` arm of a handler.
RECURSIVE FirstBadLetter(_, _)
FirstBadLetter(arguments, allowed) ==
    IF arguments = << >> THEN ""
    ELSE IF Head(arguments).letter \notin allowed THEN Head(arguments).letter
    ELSE FirstBadLetter(Tail(arguments), allowed)

HasArg(arguments, letter) ==
    \E k \in DOMAIN arguments : arguments[k].letter = letter

\* The value the handler's loop leaves in the variable of a letter: the last
\* argument with that letter wins.
ArgValue(arguments, letter) ==
    LET ks == {k \in DOMAIN arguments : arguments[k].letter = letter}
    IN arguments[CHOOSE k \in ks : \A j \in ks : j <= k].value

\* az::Cast of a non-negative Value to usize / u32: the fraction is dropped.
CastInt(value) == value \div Scale

\* --------------------------------------------------------- output formatting
RECURSIVE Digits(_)
Digits(n) == IF n < 10 THEN 1 ELSE 1 + Digits(n \div 10)

Abs(v) == IF v < 0 THEN 0 - v ELSE v

\* The point and the decimals of a Value; the values used here are exact
\* in 16 fraction bits or tenths, which Display prints as they were written.
FracWidth(v) ==
    LET f == Abs(v) % Scale
    IN IF f = 0 THEN 0
       ELSE IF f % 100 = 0 THEN 2
       ELSE IF f % 10 = 0 THEN 3
       ELSE 4

\* Number of characters Display prints for a Value.
ValueWidth(v) ==
    (IF v < 0 THEN 1 ELSE 0) + Digits(Abs(v) \div Scale) + FracWidth(v)

\* The pieces writeln! pushes, one write_str each, for
\* "M620 N{} A{} B{} C{} F{} U{} V{} W{} X{} Y{}\n": their lengths.
ConfigLinePieces(index, cfg) ==
    << 6, Digits(index),
       2, ValueWidth(cfg.advanced_angle),
       2, ValueWidth(cfg.half_advanced_angle),
       2, ValueWidth(cfg.retract_angle),
       2, ValueWidth(cfg.feed_length),
       2, Digits(cfg.settle_time),
       2, ValueWidth(cfg.pwm_0),
       2, ValueWidth(cfg.pwm_180),
       2, 1,
       2, 1,
       1 >>

\* heapless::String<64>::write_str pushes a piece whole or fails, and
\* core::fmt::write stops at the first failure: the number of pieces kept.
RECURSIVE PiecesThatFit(_, _)
PiecesThatFit(pieces, room) ==
    IF pieces = << >> \/ Head(pieces) > room THEN 0
    ELSE 1 + PiecesThatFit(Tail(pieces), room - Head(pieces))

OutLine(kind, r, index, cfg, pieces) ==
    [kind |-> kind, err |-> r.err, arg |-> r.arg, ch |-> r.ch,
     index |-> index, cfg |-> cfg, pieces |-> pieces]

OkLine == OutLine("ok", OkNone, 0, NoConfig, 0)
ErrorLine(r) == OutLine("error", r, 0, NoConfig, 0)
HeaderLine == OutLine("header", OkNone, 0, NoConfig, 0)
ReadyLine == OutLine("ready", OkNone, 0, NoConfig, 0)

\* output_feeder_config: the String<64> it formats and writes.
ConfigLine(index, cfg) ==
    OutLine("config", OkNone, index, cfg,
            PiecesThatFit(ConfigLinePieces(index, cfg), LineCapacity))

NumPieces == 21
\* The line carries every field and its newline.
LineComplete(l) == l.pieces = NumPieces
\* Number of config values the line carries in full (the index is piece 2).
ValuesIn(l) == IF l.pieces < 4 THEN 0 ELSE (l.pieces - 2) \div 2

\* handle_line's match on ret: "ok\n" or "error: {e}\n".
ReplyLine(r) == IF r.ok THEN OkLine ELSE ErrorLine(r)

\* ------------------------------------------------------------ FeederClient
\* set_config, set_servo_angle, advance, enable: Some(_) is a protocol error.
ClientExpectNone(r) ==
    IF ~ r.ok THEN r
    ELSE IF r.cfg # NoConfig THEN Err("InvalidFeederCommandResponse")
    ELSE OkNone

\* get_config: None is a protocol error.
ClientExpectSome(r) ==
    IF ~ r.ok THEN r
    ELSE IF r.cfg = NoConfig THEN Err("InvalidFeederCommandResponse")
    ELSE r

\* ------------------------------------------------- usb/gcode_interface.rs
\* core::str::utf8_char_width: the length of the sequence a byte leads,
\* 0 for a byte that leads none.
Utf8CharWidth(b) ==
    IF b < 128 THEN 1
    ELSE IF b < 194 THEN 0
    ELSE IF b < 224 THEN 2
    ELSE IF b < 240 THEN 3
    ELSE IF b < 245 THEN 4
    ELSE 0

NoChar == [some |-> FALSE, c |-> 0]
SomeChar(c) == [some |-> TRUE, c |-> c]

\* char::from_u32(u32::from_le_bytes(buf)): the four bytes read as a
\* little-endian number, a char unless above 0x10FFFF or a surrogate.
CharFromLeBytes(buf) ==
    LET low == buf[1] + 256 * buf[2] + 65536 * buf[3]
    IN IF buf[4] # 0 \/ low > 1114111 \/ (low >= 55296 /\ low <= 57343)
       THEN NoChar
       ELSE SomeChar(low)

\* char::encode_utf8.
EncodeUtf8(c) ==
    IF c < 128 THEN << c >>
    ELSE IF c < 2048 THEN << 192 + (c \div 64), 128 + (c % 64) >>
    ELSE IF c < 65536
    THEN << 224 + (c \div 4096), 128 + ((c \div 64) % 64), 128 + (c % 64) >>
    ELSE << 240 + (c \div 262144), 128 + ((c \div 4096) % 64),
            128 + ((c \div 64) % 64), 128 + (c % 64) >>

CharAssemblerNew == [buf |-> << 0, 0, 0, 0 >>, len |-> 0]

\* CharAssembler::handle_byte: the char, if any, and the assembler after
\* the call; storing at buf[len] panics when len is 4.
CharAssemblerHandleByte(ca, b) ==
    IF ca.len >= 4
    THEN [panic |-> TRUE, char |-> NoChar, ca |-> ca]
    ELSE LET buf == [ca.buf EXCEPT ![ca.len + 1] = b]
             len == ca.len + 1
         IN IF len # Utf8CharWidth(buf[1])
            THEN [panic |-> FALSE, char |-> NoChar,
                  ca |-> [buf |-> buf, len |-> len]]
            ELSE [panic |-> FALSE, char |-> CharFromLeBytes(buf),
                  ca |-> CharAssemblerNew]

LineReaderNew ==
    [char_assembler |-> CharAssemblerNew, input_buffer |-> << >>,
     in_overflow |-> FALSE, new_line |-> FALSE]

\* What handle_byte returns: Ok(None), Ok(Some(line)), an error, or a panic.
RetNone == [kind |-> "none", line |-> << >>]
RetLine(line) == [kind |-> "line", line |-> line]
RetOverflow == [kind |-> "InputBufferOverflow", line |-> << >>]
RetPanic == [kind |-> "panic", line |-> << >>]

is_newline(c) == c = 10 \/ c = 13

\* LineReader::handle_byte: what it returns and the reader after the call.
LineReaderHandleByte(r, b) ==
    LET r1 == IF r.new_line
              THEN [r EXCEPT !.input_buffer = << >>, !.new_line = FALSE]
              ELSE r
        a == CharAssemblerHandleByte(r1.char_assembler, b)
        r2 == [r1 EXCEPT !.char_assembler = a.ca]
        c == a.char.c
    IN IF a.panic THEN [ret |-> RetPanic, reader |-> r1]
       ELSE IF ~ a.char.some THEN [ret |-> RetNone, reader |-> r2]
       ELSE IF r2.in_overflow
       THEN IF ~ is_newline(c) THEN [ret |-> RetNone, reader |-> r2]
            ELSE [ret |-> RetOverflow,
                  reader |-> [r2 EXCEPT !.in_overflow = FALSE,
                                        !.input_buffer = << >>]]
       ELSE IF is_newline(c)
       THEN [ret |-> RetLine(r2.input_buffer),
             reader |-> [r2 EXCEPT !.new_line = TRUE]]
       ELSE IF Len(r2.input_buffer) + Len(EncodeUtf8(c)) > ReaderCapacity
       THEN [ret |-> RetNone, reader |-> [r2 EXCEPT !.in_overflow = TRUE]]
       ELSE [ret |-> RetNone,
             reader |-> [r2 EXCEPT !.input_buffer = @ \o EncodeUtf8(c)]]

\* ------------------------------------------------------------------- state
VARIABLES
    config,          \* Feeder.config, per feeder
    enabled,         \* Feeder.enabled
    advance_offset,  \* Feeder.advance_offset
    last_event,      \* Feeder.feedback_recognizer.last_event
    limits,          \* PwmServo.limits
    level,           \* level of the feedback pin (GpioInput::get_state)
    edge,            \* wait_for_state_change has completed, actor not yet run
    fpc,             \* where the actor is suspended
    adv,             \* locals of the advance in progress
    cmdQ,            \* FeederChannel.command_channel
    respQ,           \* FeederChannel.response_channel
    disp,            \* where the dispatcher is suspended, and its locals
    store,           \* ConfigStore contents
    output,          \* what the dispatcher wrote for the event in progress
    moves,           \* servo set_angle calls of the actor's latest operation
    op,              \* the actor's latest operation and its result
    track,           \* per feeder: fed length and pulse bookkeeping
    locked,          \* a Disconnect was handled and no enable-all came since
    lastSet,         \* config of the last successful set_config, per feeder
    scenario,        \* "host": switches left alone; "switch": operated
    nEvents,         \* events received so far
    nEdges,          \* feedback edges so far
    nTicks,          \* waits so far
    reader,          \* the LineReader of a connection
    ret,             \* what its latest handle_byte returned
    rx,              \* the bytes handed to it: count, and those of the line
    usb,             \* the USB device and the host's control lines
    iface,           \* GCodeInterface: where run is, and its connected flag
    eventQ,          \* the GCodeEvent channel
    pipe,            \* output pipe: bytes in it, bytes write_all has left
    rec,             \* the latest call of a recognizer's update on its own
    asm              \* a CharAssembler on its own, and its latest call

feederVars == << config, enabled, advance_offset, last_event, limits, fpc, adv >>
chanVars == << cmdQ, respQ >>
dispVars == << disp, store, output >>
obsVars == << moves, op, track, locked, lastSet >>
envVars == << level, edge, scenario, nEvents, nEdges, nTicks >>
readerVars == << reader, ret, rx >>
linkVars == << usb, iface, eventQ, pipe >>
recVars == << rec, asm >>
ifaceVars == << readerVars, linkVars, recVars >>
vars == << config, enabled, advance_offset, last_event, limits, level, edge,
           fpc, adv, cmdQ, respQ, disp, store, output, moves, op, track,
           locked, lastSet, scenario, nEvents, nEdges, nTicks, reader, ret,
           rx, usb, iface, eventQ, pipe, rec, asm >>

AdvIdle == [auto |-> FALSE, length |-> 0, advance_length |-> 0,
            advance_to |-> 0, timer |-> 0]

NoOp == [cmd |-> GetConfigCmd, started |-> FALSE, en0 |-> FALSE, off0 |-> 0,
         fb0 |-> FALSE, fed0 |-> 0, res |-> Pending]

OpStart(i, cmd) ==
    [cmd |-> cmd, started |-> TRUE, en0 |-> enabled[i],
     off0 |-> advance_offset[i], fb0 |-> level[i],
     fed0 |-> track[i].fed, res |-> Pending]

Move(angle, role, r, fed) ==
    [angle |-> angle, role |-> role, ok |-> r.ok, fed |-> fed]

\* What the test suite's and the firmware's stores may hold at power-up.
StoredNoRetract == [FlashDefaultConfig EXCEPT !.always_retract = FALSE]
InitStored == {NoConfig, StoredNoRetract}

\* A stored config whose PWM limits the servo driver rejects, and the
\* content of a store whose get fails for the index (ConfigStore::get
\* returns a Result; FlashConfigStore::get itself never fails).
StoredBadPwm ==
    [FlashDefaultConfig EXCEPT !.pwm_0 = V(COUNTS_PER_PERIOD) + Scale]
Unreadable == [none |-> FALSE]

\* A stored config the servo driver accepts (set_pwm_limits looks at the PWM
\* limits only) whose retract angle it will refuse to move to.
StoredBadAngle == [FlashDefaultConfig EXCEPT !.retract_angle = V(200)]

\* The stores, scenarios and pin levels a run starts with: the startup
\* failures are those of the first feeder, with the switches left alone at
\* the level that lets a feeder feed; the retract angle out of range is that
\* of the feeder whose switch is operated.
InitCases ==
    {[store |-> [i \in Feeders |-> IF i = 0 THEN NoConfig ELSE c],
      scenario |-> sc, level |-> [i \in Feeders |-> b]] :
        c \in InitStored, sc \in {"host", "switch"}, b \in BOOLEAN}
    \cup
    {[store |-> [i \in Feeders |-> IF i = 0 THEN c ELSE NoConfig],
      scenario |-> "host", level |-> [i \in Feeders |-> FALSE]] :
        c \in {StoredBadPwm, Unreadable}}
    \cup
    {[store |-> [i \in Feeders |-> IF i = 0 THEN NoConfig ELSE StoredBadAngle],
      scenario |-> "switch", level |-> [i \in Feeders |-> b]] :
        b \in BOOLEAN}

\* ConfigStore::get: the stored item, or the default when there is none.
StoreGet(index) ==
    IF store[index] = Unreadable THEN Err("ConfigGetError")
    ELSE IF store[index] = NoConfig THEN Ok(FlashDefaultConfig)
    ELSE Ok(store[index])

\* update has not been called.
RecInit == [called |-> FALSE, last |-> NoEvent, state |-> FALSE, ret |-> FALSE]

\* CharAssembler::new, no byte handed to it: seq holds the bytes handed to it
\* since it was last empty, char what the latest call returned.
AsmInit == [ca |-> CharAssemblerNew, seq |-> << >>, char |-> NoChar,
            n |-> 0, panic |-> FALSE]

\* No byte has been handed to the reader.
RxInit == [n |-> 0, b |-> 0, pending |-> << >>, last |-> "none"]

\* The device is not configured and the host has not opened the port.
UsbInit ==
    [configured |-> FALSE, dtr |-> FALSE, changed |-> FALSE, rx |-> "none",
     acts |-> 0]

\* GCodeInterface::new, and run at wait_connection; control is the last
\* of Connect and Disconnect the interface has sent.
IfaceInit ==
    [pc |-> "wait_connection", connected |-> FALSE, ended |-> "",
     sending |-> << >>, new_connected |-> FALSE, control |-> "none"]

\* The pipe is empty and the dispatcher is not writing.
PipeInit == [len |-> 0, writing |-> 0]

TrackInit == [fed |-> 0, fedOk |-> TRUE, held |-> 0, clean |-> FALSE,
              pulse |-> -1, autos |-> 0]

DispInit == [pc |-> "init", h |-> "init", idx |-> 0, phase |-> "",
             line |-> Line(FALSE, NoWord, << >>), cfg |-> NoConfig]

Init ==
    /\ config = [i \in Feeders |-> FeederNewConfig]
    /\ enabled = [i \in Feeders |-> FALSE]
    /\ advance_offset = [i \in Feeders |-> 0]
    /\ last_event = [i \in Feeders |-> NoEvent]
    /\ limits = [i \in Feeders |-> PwmServoNewLimits]
    /\ \E c \in InitCases :
            level = c.level /\ store = c.store /\ scenario = c.scenario
    /\ edge = [i \in Feeders |-> FALSE]
    /\ fpc = [i \in Feeders |-> "idle"]
    /\ adv = [i \in Feeders |-> AdvIdle]
    /\ cmdQ = [i \in Feeders |-> << >>]
    /\ respQ = [i \in Feeders |-> << >>]
    /\ disp = DispInit
    /\ output = << >>
    /\ moves = [i \in Feeders |-> << >>]
    /\ op = [i \in Feeders |-> NoOp]
    /\ track = [i \in Feeders |-> TrackInit]
    /\ locked = FALSE
    /\ lastSet = [i \in Feeders |-> NoConfig]
    /\ nEvents = 0
    /\ nEdges = 0
    /\ reader = LineReaderNew
    /\ ret = RetNone
    /\ rx = RxInit
    /\ usb = UsbInit
    /\ iface = IfaceInit
    /\ eventQ = << >>
    /\ pipe = PipeInit
    /\ rec = RecInit
    /\ asm = AsmInit
    /\ nTicks = 0

\* ------------------------------------------------------------ feeder actor
ActorSet(i, pc, a, off, le, mv, o, tr, rq) ==
    /\ fpc' = [fpc EXCEPT ![i] = pc]
    /\ adv' = [adv EXCEPT ![i] = a]
    /\ advance_offset' = [advance_offset EXCEPT ![i] = off]
    /\ last_event' = [last_event EXCEPT ![i] = le]
    /\ moves' = [moves EXCEPT ![i] = mv]
    /\ op' = [op EXCEPT ![i] = o]
    /\ track' = [track EXCEPT ![i] = tr]
    /\ respQ' = [respQ EXCEPT ![i] = rq]

FinishMutant(i, auto, r, off, le, mv, o, tr) ==
    ActorSet(i, "idle", AdvIdle, off, le, mv, [o EXCEPT !.res = r], tr,
             Append(respQ[i], r))

\* The operation ends: handle_command sends the response of a command, the
\* result of an autonomous advance is dropped (`let _ =`).
Finish(i, auto, r, off, le, mv, o, tr) ==
    ActorSet(i, "idle", AdvIdle, off, le, mv, [o EXCEPT !.res = r], tr,
             IF auto THEN respQ[i] ELSE Append(respQ[i], r))

\* advance, from the loop test to the first settle of a cycle, or to the
\* reset of the recognizer and the return when no length remains.
AdvanceLoop(i, auto, off, length, le, mv, o, tr) ==
    LET cfg == config[i]
        alen == AdvanceLength(off, length)
        ato == off + alen
        angle == AdvanceAngle(cfg, ato)
        s == FeederSetServoAngle(enabled[i], angle)
        r == s.r
        fed == (tr.fed + alen) % V(HoleLength)
        mv2 == IF s.called THEN Append(mv, Move(angle, "advance", r, fed))
               ELSE mv
    IN IF length > 0
       THEN IF r.ok
            THEN ActorSet(i, "settle_advance",
                          [auto |-> auto, length |-> length,
                           advance_length |-> alen, advance_to |-> ato,
                           timer |-> cfg.settle_time],
                          off, le, mv2, o, [tr EXCEPT !.fed = fed], respQ[i])
            ELSE Finish(i, auto, r, off, le, mv2, o,
                        [tr EXCEPT !.fedOk = FALSE])
       ELSE Finish(i, auto, OkNone, off, RecognizerReset(le), mv, o, tr)

\* advance, from its entry: the feedback gate and the length check.
AdvanceStart(i, cmd, le) ==
    LET cfg == config[i]
        auto == cmd.type = "Auto"
        o == OpStart(i, cmd)
        length == IF cmd.has_length THEN cmd.length ELSE cfg.feed_length
        tr1 == [track[i] EXCEPT !.clean = FALSE, !.pulse = -1,
                                !.autos = IF auto THEN @ + 1 ELSE @]
        tr0 == IF cfg.always_retract THEN [tr1 EXCEPT !.fedOk = FALSE]
               ELSE IF advance_offset[i] = 0
                    THEN [tr1 EXCEPT !.fed = 0, !.fedOk = TRUE]
               ELSE tr1
    IN IF FeedbackBlocks(cmd.override_error, cfg.ignore_feeback_pin, level[i])
       THEN Finish(i, auto, Err("FeederNotReady"), advance_offset[i], le,
                   << >>, o, tr1)
       ELSE IF ~ FeedLengthValid(length)
       THEN Finish(i, auto, ErrArg("InvalidFeedLength", length),
                   advance_offset[i], le, << >>, o, tr1)
       ELSE AdvanceLoop(i, auto, advance_offset[i], length, le, << >>, o, tr0)

HandleFeedbackMutantTakes(i) ==
    /\ fpc[i] = "idle"
    /\ edge[i]
    /\ edge' = [edge EXCEPT ![i] = FALSE]
    /\ cmdQ' = [cmdQ EXCEPT ![i] = IF @ = << >> THEN @ ELSE Tail(@)]
    /\ IF RecognizerUpdate(last_event[i], level[i])
       THEN AdvanceStart(i, AutoCmd, SomeEvent(level[i]))
       ELSE /\ last_event' = [last_event EXCEPT ![i] = SomeEvent(level[i])]
            /\ track' = [track EXCEPT ![i].pulse = -1]
            /\ UNCHANGED << fpc, adv, advance_offset, moves, op, respQ >>
    /\ UNCHANGED << config, enabled, limits, level, disp, store, output,
                    locked, lastSet, scenario, nEvents, nEdges, nTicks >>
    /\ UNCHANGED ifaceVars

HandleFeedbackMutant(i) ==
    /\ fpc[i] = "idle"
    /\ edge[i]
    /\ UNCHANGED edge
    /\ IF RecognizerUpdate(last_event[i], level[i])
       THEN AdvanceStart(i, AutoCmd, SomeEvent(level[i]))
       ELSE /\ last_event' = [last_event EXCEPT ![i] = SomeEvent(level[i])]
            /\ track' = [track EXCEPT ![i].pulse = -1]
            /\ UNCHANGED << fpc, adv, advance_offset, moves, op, respQ >>
    /\ UNCHANGED << config, enabled, limits, level, cmdQ, disp, store, output,
                    locked, lastSet, scenario, nEvents, nEdges, nTicks >>
    /\ UNCHANGED ifaceVars

\* Feeder::run, Either::First: handle_feedback_state_change.  select polls
\* the feedback future first, so a completed edge wins over a queued command.
HandleFeedback(i) ==
    /\ fpc[i] = "idle"
    /\ edge[i]
    /\ edge' = [edge EXCEPT ![i] = FALSE]
    /\ IF RecognizerUpdate(last_event[i], level[i])
       THEN AdvanceStart(i, AutoCmd, SomeEvent(level[i]))
       ELSE /\ last_event' = [last_event EXCEPT ![i] = SomeEvent(level[i])]
            /\ track' = [track EXCEPT ![i].pulse = -1]
            /\ UNCHANGED << fpc, adv, advance_offset, moves, op, respQ >>
    /\ UNCHANGED << config, enabled, limits, level, cmdQ, disp, store, output,
                    locked, lastSet, scenario, nEvents, nEdges, nTicks >>
    /\ UNCHANGED ifaceVars

CanHandleMutant(i, type) ==
    /\ ~ edge[i]
    /\ cmdQ[i] # << >>
    /\ Head(cmdQ[i]).type = type
    /\ Len(respQ[i]) < ChannelCapacity

\* The actor can take the next command: it waits in select, no edge is
\* pending, and the response channel has room for the answer.
CanHandle(i, type) ==
    /\ fpc[i] = "idle"
    /\ ~ edge[i]
    /\ cmdQ[i] # << >>
    /\ Head(cmdQ[i]).type = type
    /\ Len(respQ[i]) < ChannelCapacity

RespondMutant(i, cmd, r, mv) ==
    /\ cmdQ' = [cmdQ EXCEPT ![i] = Tail(cmdQ[i])]
    /\ respQ' = [respQ EXCEPT ![i] =
                    Append(respQ[i], IF r.ok THEN Ok(config[i]) ELSE r)]
    /\ op' = [op EXCEPT ![i] = [OpStart(i, cmd) EXCEPT !.res = r]]
    /\ moves' = [moves EXCEPT ![i] = mv]

\* handle_command: the command is taken and its response sent.
Respond(i, cmd, r, mv) ==
    /\ cmdQ' = [cmdQ EXCEPT ![i] = Tail(cmdQ[i])]
    /\ respQ' = [respQ EXCEPT ![i] = Append(respQ[i], r)]
    /\ op' = [op EXCEPT ![i] = [OpStart(i, cmd) EXCEPT !.res = r]]
    /\ moves' = [moves EXCEPT ![i] = mv]

FeederSetConfigMutant(cfg, lim, new) ==
    LET l == [zero |-> new.pwm_0, one_eighty |-> new.pwm_180]
        r == ServoSetPwmLimits(l)
    IN [r |-> r, config |-> new, limits |-> IF r.ok THEN l ELSE lim]

\* Feeder::set_config on a feeder holding cfg whose servo holds lim: the
\* result, and the config and the limits held afterwards.
FeederSetConfig(cfg, lim, new) ==
    LET l == [zero |-> new.pwm_0, one_eighty |-> new.pwm_180]
        r == ServoSetPwmLimits(l)
    IN [r |-> r, config |-> IF r.ok THEN new ELSE cfg,
        limits |-> IF r.ok THEN l ELSE lim]

\* handle_command, SetConfig: Feeder::set_config.
ActorSetConfig(i) ==
    /\ CanHandle(i, "SetConfig")
    /\ LET cmd == Head(cmdQ[i])
           s == FeederSetConfig(config[i], limits[i], cmd.cfg)
       IN /\ Respond(i, cmd, s.r, << >>)
          /\ limits' = [limits EXCEPT ![i] = s.limits]
          /\ config' = [config EXCEPT ![i] = s.config]
          /\ lastSet' = [lastSet EXCEPT ![i] = IF s.r.ok THEN cmd.cfg ELSE @]
    /\ UNCHANGED << enabled, advance_offset, last_event, level, edge, fpc, adv,
                    disp, store, output, track, locked, scenario, nEvents,
                    nEdges, nTicks >>
    /\ UNCHANGED ifaceVars

\* handle_command, GetConfig: Feeder::get_config.
ActorGetConfig(i) ==
    /\ CanHandle(i, "GetConfig")
    /\ Respond(i, Head(cmdQ[i]), Ok(config[i]), << >>)
    /\ UNCHANGED << config, enabled, advance_offset, last_event, limits, level,
                    edge, fpc, adv, disp, store, output, track, locked,
                    lastSet, scenario, nEvents, nEdges, nTicks >>
    /\ UNCHANGED ifaceVars

ActorSetServoAngleMutant(i) ==
    /\ CanHandle(i, "SetServoAngle")
    /\ LET cmd == Head(cmdQ[i])
           s == FeederSetServoAngle(enabled[i], cmd.angle)
       IN /\ Respond(i, cmd, s.r,
                     IF s.called THEN << Move(cmd.angle, "manual", s.r, 0) >>
                     ELSE << >>)
          /\ enabled' = [enabled EXCEPT ![i] = s.r.ok]
    /\ UNCHANGED << config, advance_offset, last_event, limits, level,
                    edge, fpc, adv, disp, store, output, track, locked,
                    lastSet, scenario, nEvents, nEdges, nTicks >>
    /\ UNCHANGED ifaceVars

\* handle_command, SetServoAngle: Feeder::set_servo_angle.
ActorSetServoAngle(i) ==
    /\ CanHandle(i, "SetServoAngle")
    /\ LET cmd == Head(cmdQ[i])
           s == FeederSetServoAngle(enabled[i], cmd.angle)
       IN Respond(i, cmd, s.r,
                  IF s.called THEN << Move(cmd.angle, "manual", s.r, 0) >>
                  ELSE << >>)
    /\ UNCHANGED << config, enabled, advance_offset, last_event, limits, level,
                    edge, fpc, adv, disp, store, output, track, locked,
                    lastSet, scenario, nEvents, nEdges, nTicks >>
    /\ UNCHANGED ifaceVars

\* handle_command, Enable: Feeder::enable.
ActorEnable(i) ==
    /\ CanHandle(i, "Enable")
    /\ Respond(i, Head(cmdQ[i]), OkNone, << >>)
    /\ enabled' = [enabled EXCEPT ![i] = Head(cmdQ[i]).state]
    /\ UNCHANGED << config, advance_offset, last_event, limits, level, edge,
                    fpc, adv, disp, store, output, track, locked, lastSet,
                    scenario, nEvents, nEdges, nTicks >>
    /\ UNCHANGED ifaceVars

\* handle_command, Advance: Feeder::advance up to its first await.
ActorAdvance(i) ==
    /\ CanHandle(i, "Advance")
    /\ cmdQ' = [cmdQ EXCEPT ![i] = Tail(cmdQ[i])]
    /\ AdvanceStart(i, Head(cmdQ[i]), last_event[i])
    /\ UNCHANGED << config, enabled, limits, level, edge, disp, store, output,
                    locked, lastSet, scenario, nEvents, nEdges, nTicks >>
    /\ UNCHANGED ifaceVars

\* advance after the settle that follows the advance move: the retract move
\* and its settle, or the offset update and the next cycle.
AfterAdvanceSettle(i) ==
    /\ fpc[i] = "settle_advance"
    /\ adv[i].timer = 0
    /\ adv[i].auto \/ Len(respQ[i]) < ChannelCapacity
    /\ LET a == adv[i]
           cfg == config[i]
           s == FeederSetServoAngle(enabled[i], cfg.retract_angle)
           r == s.r
           mv2 == IF s.called
                  THEN Append(moves[i],
                              Move(cfg.retract_angle, "retract", r, track[i].fed))
                  ELSE moves[i]
       IN IF ShouldRetract(cfg, a.advance_to)
          THEN IF r.ok
               THEN ActorSet(i, "settle_retract",
                             [a EXCEPT !.timer = cfg.settle_time],
                             advance_offset[i], last_event[i], mv2, op[i],
                             track[i], respQ[i])
               ELSE Finish(i, a.auto, r, advance_offset[i], last_event[i], mv2,
                           op[i], [track[i] EXCEPT !.fedOk = FALSE])
          ELSE AdvanceLoop(i, a.auto, a.advance_to, a.length - a.advance_length,
                           last_event[i], moves[i], op[i], track[i])
    /\ UNCHANGED << config, enabled, limits, level, edge, cmdQ, disp, store,
                    output, locked, lastSet, scenario, nEvents, nEdges, nTicks >>
    /\ UNCHANGED ifaceVars

\* advance after the settle that follows the retract move: the offset is
\* reset and the next cycle starts.
AfterRetractSettle(i) ==
    /\ fpc[i] = "settle_retract"
    /\ adv[i].timer = 0
    /\ adv[i].auto \/ Len(respQ[i]) < ChannelCapacity
    /\ AdvanceLoop(i, adv[i].auto, 0, adv[i].length - adv[i].advance_length,
                   last_event[i], moves[i], op[i], track[i])
    /\ UNCHANGED << config, enabled, limits, level, edge, cmdQ, disp, store,
                    output, locked, lastSet, scenario, nEvents, nEdges, nTicks >>
    /\ UNCHANGED ifaceVars

\* -------------------------------------------------------------- dispatcher
M(n) == Word("M", V(n))

ResolveFeederMutant(arguments) ==
    IF ~ HasArg(arguments, "N") THEN Err("NoIndex")
    ELSE LET index == CastInt(ArgValue(arguments, "N"))
         IN IF index >= NumFeeders THEN Err("NoIndex")
            ELSE [OkNone EXCEPT !.arg = index]

ResolveFeederMutantFirst(arguments) ==
    IF ~ HasArg(arguments, "N") THEN Err("NoIndex")
    ELSE LET index == CastInt(ArgValue(arguments, "N"))
         IN IF index >= NumFeeders THEN ErrArg("InvalidIndex", index)
            ELSE OkNone

\* resolve_feeder on the index a handler's loop collected from 'N'.
ResolveFeeder(arguments) ==
    IF ~ HasArg(arguments, "N") THEN Err("NoIndex")
    ELSE LET index == CastInt(ArgValue(arguments, "N"))
         IN IF index >= NumFeeders THEN ErrArg("InvalidIndex", index)
            ELSE [OkNone EXCEPT !.arg = index]

MergeConfigMutant(cfg, arguments) ==
    [FeederConfigDefault EXCEPT
        !.always_retract = IF HasArg(arguments, "Y")
                           THEN ArgValue(arguments, "Y") # 0
                           ELSE cfg.always_retract,
        !.pwm_0 = cfg.pwm_0, !.pwm_180 = cfg.pwm_180]

\* handle_m620: the config read from the feeder with the given arguments
\* written over it (handle_parameter!).
MergeConfig(cfg, arguments) ==
    LET Pick(letter, old) ==
            IF HasArg(arguments, letter) THEN ArgValue(arguments, letter)
            ELSE old
    IN [advanced_angle |-> Pick("A", cfg.advanced_angle),
        half_advanced_angle |-> Pick("B", cfg.half_advanced_angle),
        retract_angle |-> Pick("C", cfg.retract_angle),
        feed_length |-> Pick("F", cfg.feed_length),
        settle_time |-> IF HasArg(arguments, "U")
                        THEN CastInt(ArgValue(arguments, "U"))
                        ELSE cfg.settle_time,
        pwm_0 |-> Pick("V", cfg.pwm_0),
        pwm_180 |-> Pick("W", cfg.pwm_180),
        ignore_feeback_pin |-> IF HasArg(arguments, "X")
                               THEN ArgValue(arguments, "X") # 0
                               ELSE cfg.ignore_feeback_pin,
        always_retract |-> IF HasArg(arguments, "Y")
                           THEN ArgValue(arguments, "Y") # 0
                           ELSE cfg.always_retract]

HandlerLetters(h) ==
    CASE h = "M600" -> {"N", "F", "X"}
      [] h = "M603" -> {"N", "A"}
      [] h = "M610" -> {"S"}
      [] h = "M620" -> {"N", "A", "B", "C", "F", "U", "V", "W", "X", "Y"}
      [] h = "M621" -> {"N"}
      [] OTHER -> {}

\* handle_line: the handler the command word selects.
HandlerOf(command) ==
    IF command = M(600) THEN "M600"
    ELSE IF command = M(603) THEN "M603"
    ELSE IF command = M(610) THEN "M610"
    ELSE IF command = M(620) THEN "M620"
    ELSE IF command = M(621) THEN "M621"
    ELSE "unsupported"

\* What a handler does before its first request to a feeder: it fails or
\* succeeds at once (send = FALSE, result r), or sends cmd to feeder idx.
Plan(send, r, idx, cmd) == [send |-> send, r |-> r, idx |-> idx, cmd |-> cmd]
Now(r) == Plan(FALSE, r, 0, GetConfigCmd)
Send(idx, cmd) == Plan(TRUE, OkNone, idx, cmd)

HandlerPlan(line) ==
    LET h == HandlerOf(line.command)
        args == line.arguments
        bad == FirstBadLetter(args, HandlerLetters(h))
        res == ResolveFeeder(args)
    IN IF h = "unsupported"
       THEN Now(ErrWord("UnsupportedCommand", line.command.letter,
                        line.command.value))
       ELSE IF bad # "" THEN Now(ErrWord("InvalidArgument", bad, 0))
       ELSE IF h = "M610"
       THEN IF HasArg(args, "S")
            THEN Send(0, EnableCmd(ArgValue(args, "S") # 0))
            ELSE Now(OkNone)
       ELSE IF ~ res.ok THEN Now(res)
       ELSE IF h = "M600"
       THEN Send(res.arg,
                 AdvanceCmd(HasArg(args, "F"),
                            IF HasArg(args, "F") THEN ArgValue(args, "F") ELSE 0,
                            HasArg(args, "X") /\ ArgValue(args, "X") # 0))
       ELSE IF h = "M603"
       THEN IF HasArg(args, "A")
            THEN Send(res.arg, SetServoAngleCmd(ArgValue(args, "A")))
            ELSE Now(OkNone)
       ELSE Send(res.arg, GetConfigCmd)

DispIdle == [pc |-> "idle", h |-> "", idx |-> 0, phase |-> "",
             line |-> Line(FALSE, NoWord, << >>), cfg |-> NoConfig]

\* run is back at receive after handle_line(line) returned.
DispHandled(line) == [DispIdle EXCEPT !.line = line]

DispWait(h, idx, phase, line, cfg) ==
    [pc |-> "wait", h |-> h, idx |-> idx, phase |-> phase, line |-> line,
     cfg |-> cfg]

SendTo(i, cmd) ==
    /\ Len(cmdQ[i]) < ChannelCapacity
    /\ cmdQ' = [cmdQ EXCEPT ![i] = Append(cmdQ[i], cmd)]

\* The response the dispatcher's pending client call receives.
Awaiting(h, phase) ==
    /\ disp.pc = "wait"
    /\ disp.h = h
    /\ disp.phase = phase
    /\ respQ[disp.idx] # << >>

TakeResponseMutant == UNCHANGED respQ

\* The client call receives the response at the head of the queue.
TakeResponse == respQ' = [respQ EXCEPT ![disp.idx] = Tail(respQ[disp.idx])]

actorVars == << config, enabled, advance_offset, last_event, limits, level,
                edge, fpc, adv, moves, op, track, lastSet, scenario, nEdges,
                nTicks >>

InitNextMutant(k) ==
    IF k < NumFeeders /\ StoreGet(k).ok THEN k ELSE NumFeeders

\* initialize_feeder_configs: the first index from k on whose config the
\* store returns (`if let Ok(config)`), NumFeeders when there is none.
RECURSIVE InitNext(_)
InitNext(k) ==
    IF k >= NumFeeders THEN NumFeeders
    ELSE IF StoreGet(k).ok THEN k
    ELSE InitNext(k + 1)

\* initialize_feeder_configs from index k on, up to its next set_config;
\* after the last index run enters its loop.
InitFrom(k) ==
    IF InitNext(k) < NumFeeders
    THEN /\ cmdQ' = [cmdQ EXCEPT ![InitNext(k)] =
                        Append(@, SetConfigCmd(StoreGet(InitNext(k)).cfg))]
         /\ disp' = DispWait("init", InitNext(k), "", disp.line, NoConfig)
    ELSE /\ disp' = DispIdle
         /\ UNCHANGED cmdQ

\* initialize_feeder_configs, from its start.
DispInitStart ==
    /\ disp.pc = "init"
    /\ InitFrom(0)
    /\ UNCHANGED << actorVars, respQ, store, output, locked, nEvents >>
    /\ UNCHANGED ifaceVars

\* initialize_feeder_configs: the result of set_config is ignored and the
\* next index follows.
DispInitResp ==
    /\ Awaiting("init", "")
    /\ TakeResponse
    /\ InitFrom(disp.idx + 1)
    /\ UNCHANGED << actorVars, store, output, locked, nEvents >>
    /\ UNCHANGED ifaceVars

CanReceive ==
    /\ disp.pc = "idle"
    /\ nEvents < (IF scenario = "host" THEN MaxEvents ELSE MaxSwitchEvents)
    /\ nEvents' = nEvents + 1

\* run, GCodeEvent::Connect: handle_connect up to its first get_config.
DispConnect ==
    /\ CanReceive
    /\ scenario = "host"
    /\ SendTo(0, GetConfigCmd)
    /\ output' = << HeaderLine >>
    /\ disp' = DispWait("connect", 0, "", disp.line, NoConfig)
    /\ UNCHANGED << actorVars, respQ, store, locked >>
    /\ UNCHANGED ifaceVars

\* handle_connect: output_feeder_config writes the line of a feeder that
\* answered, an error is ignored; then the next feeder, at last "ready".
DispConnectResp ==
    /\ Awaiting("connect", "")
    /\ TakeResponse
    /\ LET r == ClientExpectSome(Head(respQ[disp.idx]))
           out == IF r.ok THEN Append(output, ConfigLine(disp.idx, r.cfg))
                  ELSE output
       IN IF disp.idx + 1 < NumFeeders
          THEN /\ SendTo(disp.idx + 1, GetConfigCmd)
               /\ output' = out
               /\ disp' = [disp EXCEPT !.idx = disp.idx + 1]
          ELSE /\ output' = Append(out, ReadyLine)
               /\ disp' = DispIdle
               /\ UNCHANGED cmdQ
    /\ UNCHANGED << actorVars, store, locked, nEvents >>
    /\ UNCHANGED ifaceVars

DisconnectCommandMutant == EnableCmd(TRUE)

\* handle_disconnect: the request it sends to every feeder.
DisconnectCommand == EnableCmd(FALSE)

\* run, GCodeEvent::Disconnect: handle_disconnect up to its first enable.
DispDisconnect ==
    /\ CanReceive
    /\ SendTo(0, DisconnectCommand)
    /\ output' = << >>
    /\ disp' = DispWait("disconnect", 0, "", disp.line, NoConfig)
    /\ UNCHANGED << actorVars, respQ, store, locked >>
    /\ UNCHANGED ifaceVars

\* handle_disconnect: enable errors are ignored, the next feeder follows.
DispDisconnectResp ==
    /\ Awaiting("disconnect", "")
    /\ TakeResponse
    /\ IF disp.idx + 1 < NumFeeders
       THEN /\ SendTo(disp.idx + 1, DisconnectCommand)
            /\ disp' = [disp EXCEPT !.idx = disp.idx + 1]
            /\ UNCHANGED locked
       ELSE /\ disp' = DispIdle
            /\ locked' = TRUE
            /\ UNCHANGED cmdQ
    /\ UNCHANGED << actorVars, store, output, nEvents >>
    /\ UNCHANGED ifaceVars

\* ------------------------------------------------------------ host lines
LineOf(n, arguments) == Line(TRUE, M(n), arguments)

\* The lines the host sends while the switches are operated.
SwitchLines ==
    { LineOf(610, << Word("S", V(1)) >>),
      LineOf(600, << Word("N", V(1)) >>),
      LineOf(600, << Word("N", 0), Word("X", V(1)) >>),
      LineOf(620, << Word("N", V(1)), Word("Y", V(1)) >>) }

\* The lines the host sends.
Lines ==
    { Line(FALSE, NoWord, << >>),
      Line(TRUE, Word("G", 0), << >>),
      LineOf(610, << Word("S", V(1)) >>),
      LineOf(610, << Word("S", 0) >>),
      LineOf(603, << Word("N", V(1)), Word("A", V(120)) >>),
      LineOf(603, << Word("N", V(1)), Word("A", V(200)) >>),
      LineOf(600, << Word("N", V(1)) >>),
      LineOf(600, << Word("N", V(1)), Word("F", V(4)) >>),
      LineOf(600, << Word("N", V(1)), Word("F", V(3)) >>),
      LineOf(600, << Word("N", V(1)), Word("F", 0) >>),
      LineOf(600, << Word("N", V(1)), Word("F", V(6)), Word("X", V(1)) >>),
      LineOf(600, << Word("N", 0), Word("F", V(2)) >>),
      LineOf(600, << Word("N", 0), Word("X", V(1)) >>),
      LineOf(600, << Word("F", V(2)) >>),
      LineOf(600, << Word("N", V(NumFeeders)) >>),
      LineOf(603, << Word("A", V(120)) >>),
      LineOf(620, << Word("N", V(NumFeeders + 1)), Word("A", V(120)) >>),
      LineOf(621, << >>),
      LineOf(603, << Word("N", V(1)), Word("F", V(2)) >>),
      LineOf(600, << Word("F", V(2)), Word("Q", V(1)) >>),
      LineOf(610, << Word("S", V(1)), Word("N", V(1)) >>),
      LineOf(620, << Word("N", V(1)), Word("A", V(120)), Word("Q", V(1)),
                     Word("Y", V(1)) >>),
      LineOf(621, << Word("A", V(1)), Word("N", V(1)) >>),
      LineOf(620, << Word("N", V(1)), Word("F", V(3)) >>),
      LineOf(620, << Word("N", V(1)), Word("Y", V(1)) >>),
      LineOf(620, << Word("N", V(1)), Word("X", V(1)), Word("Y", 0) >>),
      LineOf(620, << Word("N", V(1)), Word("A", 135125), Word("B", 107625),
                     Word("C", 80125), Word("V", 490125),
                     Word("W", 980375) >>),
      LineOf(620, << Word("N", V(1)), Word("A", V(1)), Word("B", V(2)),
                     Word("C", V(3)), Word("F", V(4)), Word("U", V(5)),
                     Word("V", V(6)), Word("W", V(7)), Word("X", V(1)),
                     Word("Y", 0) >>),
      LineOf(620, << Word("N", V(1)), Word("V", V(10000)) >>),
      LineOf(620, << Word("N", V(1)), Word("C", V(200)) >>),
      LineOf(621, << Word("N", V(1)) >>) }

\* An enable-all line: M610 whose S argument is not zero.
IsEnableAll(line) ==
    /\ line.has_command
    /\ HandlerOf(line.command) = "M610"
    /\ FirstBadLetter(line.arguments, HandlerLetters("M610")) = ""
    /\ HasArg(line.arguments, "S")
    /\ ArgValue(line.arguments, "S") # 0

ReplyMutant(out, r, line) ==
    /\ output' = (IF r.ok THEN Append(out, OkLine) ELSE out)
    /\ disp' = DispHandled(line)

ReplyMutantExit(out, r, line) ==
    /\ output' = Append(out, ReplyLine(r))
    /\ disp' = [DispHandled(line) EXCEPT
                    !.pc = IF r.ok THEN "idle" ELSE "exit"]

\* The handler returned r: handle_line writes the reply and run loops.
Reply(out, r, line) ==
    /\ output' = Append(out, ReplyLine(r))
    /\ disp' = DispHandled(line)

\* run, GCodeEvent::Line: handle_line up to the handler's first request, or
\* to the reply when the handler makes none.
DispLine(line) ==
    /\ CanReceive
    /\ scenario = "switch" => line \in SwitchLines
    /\ locked' = (locked /\ ~ IsEnableAll(line))
    /\ IF ~ line.has_command
       THEN /\ output' = << >>
            /\ disp' = DispHandled(line)
            /\ UNCHANGED cmdQ
       ELSE LET p == HandlerPlan(line)
            IN IF p.send
               THEN /\ SendTo(p.idx, p.cmd)
                    /\ output' = << >>
                    /\ disp' = DispWait(HandlerOf(line.command), p.idx,
                                        IF HandlerOf(line.command) = "M620"
                                        THEN "get" ELSE "",
                                        line, NoConfig)
               ELSE /\ Reply(<< >>, p.r, line)
                    /\ UNCHANGED cmdQ
    /\ UNCHANGED << actorVars, respQ, store >>
    /\ UNCHANGED ifaceVars

\* handle_m600 and handle_m603: the client call's result is the handler's.
DispMoveResp(h) ==
    /\ Awaiting(h, "")
    /\ TakeResponse
    /\ Reply(output, ClientExpectNone(Head(respQ[disp.idx])), disp.line)
    /\ UNCHANGED << actorVars, cmdQ, store, locked, nEvents >>
    /\ UNCHANGED ifaceVars

\* handle_m610: enable on each feeder in index order, `?` on an error.
DispEnableResp ==
    /\ Awaiting("M610", "")
    /\ TakeResponse
    /\ LET r == ClientExpectNone(Head(respQ[disp.idx]))
       IN IF r.ok /\ disp.idx + 1 < NumFeeders
          THEN /\ SendTo(disp.idx + 1,
                         EnableCmd(ArgValue(disp.line.arguments, "S") # 0))
               /\ disp' = [disp EXCEPT !.idx = disp.idx + 1]
               /\ UNCHANGED output
          ELSE /\ Reply(output, r, disp.line)
               /\ UNCHANGED cmdQ
    /\ UNCHANGED << actorVars, store, locked, nEvents >>
    /\ UNCHANGED ifaceVars

\* handle_m620 after get_config: the arguments are merged into the config
\* and set_config is sent.
DispM620GetResp ==
    /\ Awaiting("M620", "get")
    /\ TakeResponse
    /\ LET r == ClientExpectSome(Head(respQ[disp.idx]))
           merged == MergeConfig(r.cfg, disp.line.arguments)
       IN IF r.ok
          THEN /\ SendTo(disp.idx, SetConfigCmd(merged))
               /\ disp' = [disp EXCEPT !.phase = "set", !.cfg = merged]
               /\ UNCHANGED output
          ELSE /\ Reply(output, r, disp.line)
               /\ UNCHANGED cmdQ
    /\ UNCHANGED << actorVars, store, locked, nEvents >>
    /\ UNCHANGED ifaceVars

DispM620SetRespMutant ==
    /\ Awaiting("M620", "set")
    /\ TakeResponse
    /\ store' = [store EXCEPT ![disp.idx] = disp.cfg]
    /\ Reply(output, ClientExpectNone(Head(respQ[disp.idx])), disp.line)
    /\ UNCHANGED << actorVars, cmdQ, locked, nEvents >>
    /\ UNCHANGED ifaceVars

\* handle_m620 after set_config: on success config_store.set, whose error
\* (ConfigSetError, a flash failure) is the handler's result.
DispM620SetResp ==
    /\ Awaiting("M620", "set")
    /\ TakeResponse
    /\ LET r == ClientExpectNone(Head(respQ[disp.idx]))
       IN IF r.ok
          THEN \E stored \in BOOLEAN :
                  IF stored
                  THEN /\ store' = [store EXCEPT ![disp.idx] = disp.cfg]
                       /\ Reply(output, OkNone, disp.line)
                  ELSE /\ Reply(output, Err("ConfigSetError"),
                                  disp.line)
                       /\ UNCHANGED store
          ELSE /\ Reply(output, r, disp.line)
               /\ UNCHANGED store
    /\ UNCHANGED << actorVars, cmdQ, locked, nEvents >>
    /\ UNCHANGED ifaceVars

\* handle_m621: output_feeder_config writes the config line, then the reply.
DispM621Resp ==
    /\ Awaiting("M621", "")
    /\ TakeResponse
    /\ LET r == ClientExpectSome(Head(respQ[disp.idx]))
       IN IF r.ok
          THEN Reply(Append(output, ConfigLine(disp.idx, r.cfg)), OkNone,
                     disp.line)
          ELSE Reply(output, r, disp.line)
    /\ UNCHANGED << actorVars, cmdQ, store, locked, nEvents >>
    /\ UNCHANGED ifaceVars

\* ------------------------------------------------------------- environment
\* How far the host or the switch lets time pass in one go.
Durations == {10, 50, 250, 500, 600}

\* The feeders whose switch is operated; the pin of the others keeps its
\* level.
Operated == {NumFeeders - 1}

\* The feedback pin changes level.  wait_for_state_change completes only
\* for an actor that is waiting in its select.
Toggle(i) ==
    /\ scenario = "switch"
    /\ nEdges < MaxEdges
    /\ nEdges' = nEdges + 1
    /\ level' = [level EXCEPT ![i] = ~ level[i]]
    /\ edge' = [edge EXCEPT ![i] = edge[i] \/ fpc[i] = "idle"]
    /\ LET seen == fpc[i] = "idle" /\ ~ edge[i]
           t == track[i]
       IN track' = [track EXCEPT ![i] =
                      [t EXCEPT !.held = 0,
                                !.clean = seen,
                                !.pulse = IF seen /\ t.clean /\ ~ level[i]
                                          THEN t.held ELSE -1]]
    /\ UNCHANGED << config, enabled, advance_offset, last_event, limits, fpc,
                    adv, cmdQ, respQ, disp, store, output, moves, op, locked,
                    lastSet, scenario, nEvents, nTicks >>
    /\ UNCHANGED ifaceVars

\* A task can run without waiting for time to pass.
ActorRunnable(i) ==
    \/ fpc[i] = "idle" /\ (edge[i] \/ cmdQ[i] # << >>)
    \/ fpc[i] # "idle" /\ adv[i].timer = 0

DispRunnable ==
    \/ disp.pc = "init"
    \/ disp.pc = "wait" /\ respQ[disp.idx] # << >>

SettlingMutant ==
    {i \in Feeders : fpc[i] # "idle" /\ \A j \in 0 .. (i - 1) : fpc[j] = "idle"}

\* The actors suspended in a settle delay: each in a Timer of its own.
Settling == {i \in Feeders : fpc[i] # "idle"}

\* update compares the age of a recorded `false` only: that age is kept.
Ageing(i) == last_event[i].some /\ ~ last_event[i].state

Later(t, d) == Min(t + d, AgeCap)

\* Time passes by d ms: settle timers run down, recorded presses age.
Elapse(d) ==
    /\ adv' = [i \in Feeders |->
                 IF i \in Settling THEN [adv[i] EXCEPT !.timer = @ - d]
                 ELSE adv[i]]
    /\ last_event' = [i \in Feeders |->
                        IF Ageing(i)
                        THEN [last_event[i] EXCEPT !.age = Later(@, d)]
                        ELSE last_event[i]]
    /\ track' = [i \in Feeders |->
                   IF track[i].clean /\ ~ level[i]
                   THEN [track[i] EXCEPT !.held = Later(@, d)]
                   ELSE track[i]]
    /\ UNCHANGED << config, enabled, advance_offset, limits, level, edge, fpc,
                    cmdQ, respQ, disp, store, output, moves, op, locked,
                    lastSet, scenario, nEvents, nEdges >>

Quiescent ==
    /\ ~ DispRunnable
    /\ \A i \in Feeders : ~ ActorRunnable(i)

\* The host or the operator of a switch waits d ms.  Tasks run in no time:
\* time passes only while every task is suspended, and a wait ends no later
\* than the next settle timer.
Tick(d) ==
    /\ Quiescent
    /\ scenario = "switch"
    /\ nTicks < MaxTicks
    /\ nTicks' = nTicks + 1
    /\ \A i \in Settling : d <= adv[i].timer
    /\ Elapse(d)
    /\ UNCHANGED ifaceVars

\* Every task is suspended until the settle timers that expire next do so.
TickToExpiry ==
    /\ Quiescent
    /\ Settling # {}
    /\ UNCHANGED nTicks
    /\ LET d == CHOOSE t \in {adv[i].timer : i \in Settling} :
                    \A i \in Settling : t <= adv[i].timer
       IN Elapse(d)
    /\ UNCHANGED ifaceVars

Next ==
    \/ DispInitStart
    \/ DispInitResp
    \/ DispConnect
    \/ DispConnectResp
    \/ DispDisconnect
    \/ DispDisconnectResp
    \/ \E line \in Lines : DispLine(line)
    \/ DispMoveResp("M600")
    \/ DispMoveResp("M603")
    \/ DispEnableResp
    \/ DispM620GetResp
    \/ DispM620SetResp
    \/ DispM621Resp
    \/ \E i \in Feeders : HandleFeedback(i)
    \/ \E i \in Feeders : ActorSetConfig(i)
    \/ \E i \in Feeders : ActorGetConfig(i)
    \/ \E i \in Feeders : ActorSetServoAngle(i)
    \/ \E i \in Feeders : ActorEnable(i)
    \/ \E i \in Feeders : ActorAdvance(i)
    \/ \E i \in Feeders : AfterAdvanceSettle(i)
    \/ \E i \in Feeders : AfterRetractSettle(i)
    \/ \E i \in Operated : Toggle(i)
    \/ \E d \in Durations : Tick(d)
    \/ TickToExpiry

Spec == Init /\ [][Next]_vars

\* The steps of the dispatcher task between two receives.
DispStep ==
    \/ DispInitStart
    \/ DispInitResp
    \/ DispConnectResp
    \/ DispDisconnectResp
    \/ DispMoveResp("M600")
    \/ DispMoveResp("M603")
    \/ DispEnableResp
    \/ DispM620GetResp
    \/ DispM620SetResp
    \/ DispM621Resp

\* The steps of the actor task of feeder i.
ActorStep(i) ==
    \/ HandleFeedback(i)
    \/ ActorSetConfig(i)
    \/ ActorGetConfig(i)
    \/ ActorSetServoAngle(i)
    \/ ActorEnable(i)
    \/ ActorAdvance(i)
    \/ AfterAdvanceSettle(i)
    \/ AfterRetractSettle(i)

\* run receives the next event of the host.
Receive ==
    \/ DispConnect
    \/ DispDisconnect
    \/ \E line \in Lines : DispLine(line)

\* The runs in which the switch of the last feeder is operated, from a store
\* that holds nothing for it.
LiveInit ==
    /\ Init
    /\ scenario = "switch"
    /\ store[NumFeeders - 1] = NoConfig

\* The steps of those runs.
LiveNext ==
    \/ DispInitStart
    \/ DispInitResp
    \/ DispDisconnect
    \/ DispDisconnectResp
    \/ \E line \in SwitchLines : DispLine(line)
    \/ DispMoveResp("M600")
    \/ DispEnableResp
    \/ DispM620GetResp
    \/ DispM620SetResp
    \/ \E i \in Feeders : HandleFeedback(i)
    \/ \E i \in Feeders : ActorSetConfig(i)
    \/ \E i \in Feeders : ActorGetConfig(i)
    \/ \E i \in Feeders : ActorEnable(i)
    \/ \E i \in Feeders : ActorAdvance(i)
    \/ \E i \in Feeders : AfterAdvanceSettle(i)
    \/ \E i \in Feeders : AfterRetractSettle(i)
    \/ \E i \in Operated : Toggle(i)
    \/ \E d \in Durations : Tick(d)
    \/ TickToExpiry

\* The executor polls every task that is ready, and the timers of the settle
\* delays expire; the host and the operator of the switch are free to stop.
LiveSpec ==
    /\ LiveInit
    /\ [][LiveNext]_vars
    /\ WF_vars(DispStep)
    /\ \A i \in Feeders : WF_vars(ActorStep(i))
    /\ WF_vars(TickToExpiry)

\* ------------------------------------------------- a LineReader and its bytes
\* The state of the dispatcher, the feeders and their environment.
coreVars == << config, enabled, advance_offset, last_event, limits, level,
               edge, fpc, adv, cmdQ, respQ, disp, store, output, moves, op,
               track, locked, lastSet, scenario, nEvents, nEdges, nTicks >>

\* The bytes a host sends: line feed, carriage return, 'a', and bytes that
\* make the two-byte U+00D0 (C3 90) and the four-byte U+10410 (F0 90 90
\* 90); 90 alone leads no character.
ReaderBytes == {10, 13, 97, 144, 195, 240}

\* One call of handle_byte; a panic ends the calls.  rx keeps the byte, the
\* bytes since the last newline byte, and what the last newline returned.
HandleByte(b) ==
    /\ rx.n < MaxBytes
    /\ ret # RetPanic
    /\ reader' = LineReaderHandleByte(reader, b).reader
    /\ ret' = LineReaderHandleByte(reader, b).ret
    /\ rx' = [n |-> rx.n + 1, b |-> b,
              pending |-> IF is_newline(b) THEN << >>
                          ELSE Append(rx.pending, b),
              last |-> IF is_newline(b)
                       THEN LineReaderHandleByte(reader, b).ret.kind
                       ELSE rx.last]
    /\ UNCHANGED << coreVars, recVars, linkVars >>

\* A reader on its own: the rest of the system stays as constructed.
AsConstructed ==
    /\ Init
    /\ scenario = "host"
    /\ store = [i \in Feeders |-> NoConfig]
    /\ level = [i \in Feeders |-> FALSE]

ReaderNext == \E b \in ReaderBytes : HandleByte(b)

ReaderSpec == AsConstructed /\ [][ReaderNext]_vars

\* ------------------------------------------- GCodeInterface and the host
ConnectEvent == [kind |-> "Connect", line |-> Line(FALSE, NoWord, << >>)]
DisconnectEvent == [kind |-> "Disconnect", line |-> Line(FALSE, NoWord, << >>)]
LineEvent(line) == [kind |-> "Line", line |-> line]

\* The packets a host sends: the line M610 S1, the line M610 S0, the end
\* of a line longer than the reader's buffer, and BurstLines lines M621 N1.
EnableLine == LineOf(610, << Word("S", V(1)) >>)
DisableLine == LineOf(610, << Word("S", V(0)) >>)
QueryLine == LineOf(621, << Word("N", V(1)) >>)
Packets == {"enable", "disable", "long", "burst"}
PacketLines(p) ==
    IF p = "enable" THEN << LineEvent(EnableLine) >>
    ELSE IF p = "disable" THEN << LineEvent(DisableLine) >>
    ELSE [k \in 1 .. BurstLines |-> LineEvent(QueryLine)]

\* The channel's free slots.
EventRoom == GCODE_CHANNEL_LEN - Len(eventQ)

\* event_sender.send(event).await of a control change: the send completes
\* at once when the channel has room, and the connected flag is assigned
\* after it, nc being the DTR read before it; when the channel is full the
\* interface is suspended in the send.
SendControl(e, nc) ==
    IF EventRoom > 0
    THEN /\ eventQ' = Append(eventQ, e)
         /\ iface' = [iface EXCEPT !.connected = nc, !.control = e.kind]
    ELSE /\ UNCHANGED eventQ
         /\ iface' = [iface EXCEPT !.pc = "send", !.sending = << e >>,
                                   !.new_connected = nc]

\* handle_connection returns with an error: run logs it and goes back to
\* wait_connection; the connected flag stays as it is.
ConnectionReturns(why) ==
    iface' = [iface EXCEPT !.pc = "wait_connection", !.ended = why,
                           !.sending = << >>]

\* The bus configures the device.
UsbConfigure ==
    /\ usb.acts < MaxHostActs
    /\ ~ usb.configured
    /\ usb' = [usb EXCEPT !.configured = TRUE, !.acts = @ + 1]
    /\ UNCHANGED << coreVars, recVars, readerVars, iface, eventQ, pipe >>

\* The cable is pulled or the bus resets: the endpoints are disabled and
\* what the host had sent is lost; the USB stack either leaves the control
\* lines as they were or clears DTR and signals the change.
UsbUnplug ==
    /\ usb.acts < MaxHostActs
    /\ usb.configured
    /\ \E reset \in BOOLEAN :
            usb' = IF reset
                   THEN [configured |-> FALSE, dtr |-> FALSE,
                         changed |-> TRUE, rx |-> "none",
                         acts |-> usb.acts + 1]
                   ELSE [usb EXCEPT !.configured = FALSE, !.rx = "none",
                                    !.acts = @ + 1]
    /\ UNCHANGED << coreVars, recVars, readerVars, iface, eventQ, pipe >>

\* The host opens the port (sets DTR); a link that ended by DTR is back.
HostOpensPort ==
    /\ usb.acts < MaxHostActs
    /\ usb.configured
    /\ ~ usb.dtr
    /\ usb' = [usb EXCEPT !.dtr = TRUE, !.changed = TRUE, !.acts = @ + 1]
    /\ iface' = [iface EXCEPT
                    !.ended = IF iface.ended = "dtr" THEN "" ELSE @]
    /\ UNCHANGED << coreVars, recVars, readerVars, eventQ, pipe >>

\* The host closes the port (clears DTR): the link ends.
HostClosesPort ==
    /\ usb.acts < MaxHostActs
    /\ usb.configured
    /\ usb.dtr
    /\ usb' = [usb EXCEPT !.dtr = FALSE, !.changed = TRUE, !.acts = @ + 1]
    /\ iface' = [iface EXCEPT !.ended = "dtr"]
    /\ UNCHANGED << coreVars, recVars, readerVars, eventQ, pipe >>

\* The host sends a packet.
HostSends(p) ==
    /\ usb.acts < MaxHostActs
    /\ usb.configured
    /\ usb.rx = "none"
    /\ usb' = [usb EXCEPT !.rx = p, !.acts = @ + 1]
    /\ UNCHANGED << coreVars, recVars, readerVars, iface, eventQ, pipe >>

\* run: wait_connection completes once the endpoints are enabled, and
\* handle_connection starts.
IfaceWaitConnection ==
    /\ iface.pc = "wait_connection"
    /\ usb.configured
    /\ iface' = [iface EXCEPT !.pc = "select"]
    /\ UNCHANGED << coreVars, recVars, readerVars, usb, eventQ, pipe >>

\* handle_connection, Either3::First: output of the dispatcher, as much as
\* output_buf holds, is written to the host; write_packet fails with
\* Disabled when the endpoints are.
IfaceOutput ==
    /\ iface.pc = "select"
    /\ pipe.len > 0
    /\ pipe' = [pipe EXCEPT !.len = @ - Min(@, PACKET_LEN)]
    /\ IF usb.configured THEN UNCHANGED iface
       ELSE ConnectionReturns("disabled")
    /\ UNCHANGED << coreVars, recVars, readerVars, usb, eventQ >>

IfaceControlChangedMutant ==
    /\ iface.pc = "select"
    /\ pipe.len = 0
    /\ usb.changed
    /\ usb' = [usb EXCEPT !.changed = FALSE]
    /\ LET new_connected == usb.dtr
       IN IF new_connected
          THEN SendControl(ConnectEvent, new_connected)
          ELSE IF ~ new_connected /\ iface.connected
          THEN SendControl(DisconnectEvent, new_connected)
          ELSE /\ iface' = [iface EXCEPT !.connected = new_connected]
               /\ UNCHANGED eventQ
    /\ UNCHANGED << coreVars, recVars, readerVars, pipe >>

\* handle_connection, Either3::Second: a change of DTR becomes a Connect or
\* a Disconnect event.  select3 polls its futures in order, so this branch
\* is taken only when there is no output to write.
IfaceControlChanged ==
    /\ iface.pc = "select"
    /\ pipe.len = 0
    /\ usb.changed
    /\ usb' = [usb EXCEPT !.changed = FALSE]
    /\ LET new_connected == usb.dtr
       IN IF new_connected /\ ~ iface.connected
          THEN SendControl(ConnectEvent, new_connected)
          ELSE IF ~ new_connected /\ iface.connected
          THEN SendControl(DisconnectEvent, new_connected)
          ELSE /\ iface' = [iface EXCEPT !.connected = new_connected]
               /\ UNCHANGED eventQ
    /\ UNCHANGED << coreVars, recVars, readerVars, pipe >>

\* handle_connection, Either3::Third: read_packet fails with Disabled when
\* the endpoints are; otherwise the packet is echoed and its bytes go to
\* the line reader, whose InputBufferOverflow ends handle_connection and
\* whose lines become Line events, sent one after the other.  A line
\* M610 S1 sent after the link ended enables the feeders anew.
IfaceReadPacket ==
    /\ iface.pc = "select"
    /\ pipe.len = 0
    /\ ~ usb.changed
    /\ IF ~ usb.configured
       THEN /\ ConnectionReturns("disabled")
            /\ UNCHANGED << usb, eventQ >>
       ELSE /\ usb.rx # "none"
            /\ usb' = [usb EXCEPT !.rx = "none"]
            /\ IF usb.rx = "long"
               THEN /\ ConnectionReturns("error")
                    /\ UNCHANGED eventQ
               ELSE LET k == Min(Len(PacketLines(usb.rx)), EventRoom)
                        rest == SubSeq(PacketLines(usb.rx), k + 1,
                                       Len(PacketLines(usb.rx)))
                    IN /\ eventQ' = eventQ \o SubSeq(PacketLines(usb.rx), 1, k)
                       /\ iface' = [iface EXCEPT
                                      !.pc = IF rest = << >> THEN @ ELSE "send",
                                      !.sending = rest,
                                      !.new_connected = iface.connected,
                                      !.ended = IF usb.rx = "enable"
                                                THEN "" ELSE @]
    /\ UNCHANGED << coreVars, recVars, readerVars, pipe >>

\* The send the interface is suspended in completes once the channel has
\* room.  After a control change the connected flag is assigned and the
\* select loop goes on; in the loop over a packet the next line follows,
\* and the newline echoed before it fails with Disabled when the endpoints
\* are.  Nothing else of handle_connection runs meanwhile: the output pipe
\* is not read.
IfaceSend ==
    /\ iface.pc = "send"
    /\ EventRoom > 0
    /\ eventQ' = Append(eventQ, Head(iface.sending))
    /\ IF Tail(iface.sending) = << >>
       THEN iface' = [iface EXCEPT
                        !.pc = "select", !.sending = << >>,
                        !.connected = iface.new_connected,
                        !.control = IF Head(iface.sending).kind = "Line"
                                    THEN @ ELSE Head(iface.sending).kind]
       ELSE IF ~ usb.configured
       THEN ConnectionReturns("disabled")
       ELSE iface' = [iface EXCEPT !.sending = Tail(@)]
    /\ UNCHANGED << coreVars, recVars, readerVars, usb, pipe >>

RECURSIVE SumSeq(_)
SumSeq(s) == IF s = << >> THEN 0 ELSE Head(s) + SumSeq(Tail(s))

\* Number of bytes of a line the dispatcher writes: "ok\n",
\* "saved settings:\n", "ready\n", or the pieces of a config line that fit.
LineBytes(l) ==
    IF l.kind = "ok" THEN 3
    ELSE IF l.kind = "header" THEN 16
    ELSE IF l.kind = "ready" THEN 6
    ELSE SumSeq(SubSeq(ConfigLinePieces(l.index, l.cfg), 1, l.pieces))

\* What the handler of an event writes: handle_connect its report,
\* handle_disconnect nothing, M610 ok, M621 the config line and ok.
EventLines(e) ==
    IF e.kind = "Connect"
    THEN << HeaderLine >>
         \o [k \in 1 .. NumFeeders |-> ConfigLine(k - 1, config[k - 1])]
         \o << ReadyLine >>
    ELSE IF e.kind = "Disconnect" THEN << >>
    ELSE IF e.line.command = M(621)
    THEN LET index == ArgValue(e.line.arguments, "N") \div Scale
         IN << ConfigLine(index, config[index]), OkLine >>
    ELSE << OkLine >>

EventBytes(e) == SumSeq([k \in DOMAIN EventLines(e) |-> LineBytes(EventLines(e)[k])])

\* GCodeHandler::run with its handlers taken whole: Connect writes its
\* report, Disconnect disables every feeder, M610 sets the enabled flag of
\* every feeder and writes ok, M621 writes the config of a feeder and ok.
\* write_all puts into the pipe what fits and is suspended with the rest
\* when the pipe is full.
LinkDispatch ==
    /\ eventQ # << >>
    /\ pipe.writing = 0
    /\ eventQ' = Tail(eventQ)
    /\ LET e == Head(eventQ)
           n == Min(EventBytes(e), OUTPUT_PIPE_LEN - pipe.len)
       IN /\ pipe' = [len |-> pipe.len + n, writing |-> EventBytes(e) - n]
          /\ IF e.kind = "Disconnect"
             THEN enabled' = [i \in Feeders |-> FALSE]
             ELSE IF e.kind = "Line" /\ e.line.command = M(610)
             THEN enabled' =
                      [i \in Feeders |-> ArgValue(e.line.arguments, "S") # 0]
             ELSE UNCHANGED enabled
    /\ UNCHANGED << config, advance_offset, last_event, limits, level, edge,
                    fpc, adv, cmdQ, respQ, disp, store, output, moves, op,
                    track, locked, lastSet, scenario, nEvents, nEdges, nTicks,
                    recVars, readerVars, usb, iface >>

\* write_all goes on once the interface has read from the pipe.
LinkWrite ==
    /\ pipe.writing > 0
    /\ pipe.len < OUTPUT_PIPE_LEN
    /\ LET n == Min(pipe.writing, OUTPUT_PIPE_LEN - pipe.len)
       IN pipe' = [len |-> pipe.len + n, writing |-> pipe.writing - n]
    /\ UNCHANGED << coreVars, recVars, readerVars, usb, iface, eventQ >>

LinkNext ==
    \/ UsbConfigure
    \/ UsbUnplug
    \/ HostOpensPort
    \/ HostClosesPort
    \/ \E p \in Packets : HostSends(p)
    \/ IfaceWaitConnection
    \/ IfaceOutput
    \/ IfaceControlChanged
    \/ IfaceReadPacket
    \/ IfaceSend
    \/ LinkDispatch
    \/ LinkWrite

\* The interface, the host and the dispatcher's event loop; the feeders
\* are as constructed.
LinkSpec == AsConstructed /\ [][LinkNext]_vars

\* ------------------------------------------ a recognizer and its clock
\* The feeder whose recognizer is called on its own.
RecFeeder == 0

\* What a call on the recognizer leaves alone.
recFrame == << config, enabled, advance_offset, limits, level, edge, fpc, adv,
               cmdQ, respQ, disp, store, output, moves, op, track, locked,
               lastSet, scenario, nEvents, nEdges, nTicks, readerVars,
               linkVars, asm >>

\* update(state): the call is kept with the event it found recorded.
RecUpdate(state) ==
    /\ rec' = [called |-> TRUE, last |-> last_event[RecFeeder],
               state |-> state,
               ret |-> RecognizerUpdate(last_event[RecFeeder], state)]
    /\ last_event' = [last_event EXCEPT ![RecFeeder] = SomeEvent(state)]
    /\ UNCHANGED recFrame

\* Instant::now() moves on by d ms.
RecElapse(d) ==
    /\ Ageing(RecFeeder)
    /\ last_event' = [last_event EXCEPT ![RecFeeder].age = Later(@, d)]
    /\ rec' = [rec EXCEPT !.called = FALSE]
    /\ UNCHANGED recFrame

\* reset().
RecReset ==
    /\ last_event[RecFeeder].some
    /\ last_event' = [last_event EXCEPT
                        ![RecFeeder] = RecognizerReset(@)]
    /\ rec' = [rec EXCEPT !.called = FALSE]
    /\ UNCHANGED recFrame

RecognizerNext ==
    \/ \E state \in BOOLEAN : RecUpdate(state)
    \/ \E d \in Durations : RecElapse(d)
    \/ RecReset

\* A recognizer on its own: any sequence of updates, waits and resets.
RecognizerSpec == AsConstructed /\ [][RecognizerNext]_vars

\* --------------------------------------------- a CharAssembler and its bytes
\* The bytes handed to the assembler: '$', and the bytes of U+00A2 (C2 A2),
\* U+20AC (E2 82 AC) and U+10410 (F0 90 90 90).
AssemblerBytes == {36, 194, 162, 226, 130, 172, 240, 144}

\* One call of CharAssembler::handle_byte; a panic ends the calls.
AsmHandleByte(b) ==
    /\ asm.n < MaxAsmBytes
    /\ ~ asm.panic
    /\ LET a == CharAssemblerHandleByte(asm.ca, b)
       IN asm' = [ca |-> a.ca,
                  seq |-> IF asm.ca.len = 0 THEN << b >>
                          ELSE Append(asm.seq, b),
                  char |-> a.char, n |-> asm.n + 1, panic |-> a.panic]
    /\ UNCHANGED << coreVars, rec, readerVars, linkVars >>

AssemblerNext == \E b \in AssemblerBytes : AsmHandleByte(b)

\* An assembler on its own: any sequence of the bytes.
AssemblerSpec == AsConstructed /\ [][AssemblerNext]_vars

TypeOK ==
    /\ \A i \in Feeders : advance_offset[i] \in {0, V(StepLength)}
    /\ \A i \in Feeders : Len(cmdQ[i]) + Len(respQ[i]) <= 1

\* ------------------------------------------------------------------ claims
\* The latest operation of feeder i is a request of one of the types, and it
\* has returned.
Returned(i, types) ==
    /\ op[i].started
    /\ op[i].cmd.type \in types
    /\ op[i].res # Pending

\* The length the latest advance of feeder i resolved (the config cannot
\* have changed since: set_config is an operation of its own).
OpLength(i) ==
    IF op[i].cmd.has_length THEN op[i].cmd.length ELSE config[i].feed_length

\* The latest advance of feeder i met the feedback gate closed.
OpGated(i) ==
    /\ op[i].fb0
    /\ ~ op[i].cmd.override_error
    /\ ~ config[i].ignore_feeback_pin

OpLengthOdd(i) == OpLength(i) % V(StepLength) # 0

\* C1 as stated: on a feeder whose enabled flag is false every SetServoAngle
\* and every Advance request fails with FeederDisabled and causes no servo
\* set_angle call.
C1_AlwaysFeederDisabled ==
    \A i \in Feeders :
        (Returned(i, {"SetServoAngle", "Advance"}) /\ ~ op[i].en0)
            => (op[i].res = Err("FeederDisabled") /\ moves[i] = << >>)

\* C1 as amended: on a feeder whose enabled flag is false no request causes
\* a servo set_angle call; every SetServoAngle fails with FeederDisabled, and
\* an Advance fails with FeederDisabled unless it is rejected before its
\* first move with FeederNotReady (gate closed) or InvalidFeedLength (length
\* not a multiple of 2 mm), or has no length to feed and returns Ok.
C1_DisabledGuard ==
    \A i \in Feeders :
        (op[i].started /\ ~ op[i].en0) =>
            /\ moves[i] = << >>
            /\ Returned(i, {"SetServoAngle"}) =>
                    op[i].res = Err("FeederDisabled")
            /\ Returned(i, {"Advance"}) =>
                    op[i].res =
                        IF OpGated(i) THEN Err("FeederNotReady")
                        ELSE IF OpLengthOdd(i)
                             THEN ErrArg("InvalidFeedLength", OpLength(i))
                        ELSE IF OpLength(i) > 0 THEN Err("FeederDisabled")
                        ELSE OkNone

\* A disabled feeder has refused an Advance with FeederDisabled.
C1_Witness ==
    \E i \in Feeders :
        /\ Returned(i, {"Advance"})
        /\ ~ op[i].en0
        /\ op[i].res = Err("FeederDisabled")
\* C2: once the dispatcher has handled a Disconnect, and until the host
\* sends a new enable-all line, every feeder is disabled and no operation of
\* any feeder makes a servo call, whether or not a Connect follows.
C2_DisconnectDisables ==
    locked => \A i \in Feeders : (~ enabled[i]) /\ moves[i] = << >>

\* A feeder that was enabled when the Disconnect reached it is disabled, and
\* another one has since refused a move or a feed.
C2_Witness ==
    /\ locked
    /\ \E i \in Feeders :
        /\ op[i].cmd = EnableCmd(FALSE)
        /\ op[i].en0
    /\ \E i \in Feeders :
        /\ Returned(i, {"SetServoAngle", "Advance"})
        /\ op[i].res = Err("FeederDisabled")
\* C3: an Advance that finds the feedback input reading true, with
\* override_error false and config.ignore_feeback_pin false, fails with
\* FeederNotReady, makes no servo call and leaves advance_offset as it was.
C3_FeedbackGate ==
    \A i \in Feeders :
        (op[i].started /\ op[i].cmd.type = "Advance" /\ OpGated(i)) =>
            /\ op[i].res = Err("FeederNotReady")
            /\ moves[i] = << >>
            /\ advance_offset[i] = op[i].off0

\* An enabled feeder standing at offset 2 mm has refused an Advance at the
\* gate.
C3_Witness ==
    \E i \in Feeders :
        /\ Returned(i, {"Advance"})
        /\ OpGated(i)
        /\ op[i].en0
        /\ op[i].off0 = V(StepLength)
\* C4: an advance with override_error true, or on a feeder whose
\* config.ignore_feeback_pin is true, is never rejected with FeederNotReady,
\* whatever the feedback input reads; the autonomous advance a pulse
\* triggers is one of them.
C4_OverrideBypassesGate ==
    \A i \in Feeders :
        (/\ op[i].started
         /\ op[i].cmd.type \in {"Advance", "Auto"}
         /\ \/ op[i].cmd.override_error
            \/ config[i].ignore_feeback_pin
            \/ op[i].cmd.type = "Auto")
            => op[i].res # Err("FeederNotReady")

\* An autonomous advance has run to its end on an enabled feeder whose
\* feedback input read true when it started.
C4_Witness ==
    \E i \in Feeders :
        /\ op[i].started
        /\ op[i].cmd.type = "Auto"
        /\ op[i].fb0
        /\ op[i].en0
        /\ op[i].res = OkNone
\* C5 as stated: an advance whose length, explicit or config.feed_length,
\* is not a multiple of 2 mm fails with InvalidFeedLength(length) and makes
\* no servo call.
C5_AlwaysInvalidFeedLength ==
    \A i \in Feeders :
        (Returned(i, {"Advance", "Auto"}) /\ OpLengthOdd(i)) =>
            /\ op[i].res = ErrArg("InvalidFeedLength", OpLength(i))
            /\ moves[i] = << >>

\* C5 as amended: an advance whose length, explicit or config.feed_length, is
\* not a multiple of 2 mm makes no servo call and fails with
\* InvalidFeedLength(length), unless the feedback gate rejects it first, and
\* then it fails with FeederNotReady.
C5_FeedLengthDivisibility ==
    \A i \in Feeders :
        (op[i].started /\ op[i].cmd.type \in {"Advance", "Auto"}
            /\ OpLengthOdd(i)) =>
            /\ moves[i] = << >>
            /\ op[i].res = IF OpGated(i) THEN Err("FeederNotReady")
                           ELSE ErrArg("InvalidFeedLength", OpLength(i))

\* An enabled feeder whose config.feed_length is 3 mm has refused an Advance
\* that named no length.
C5_Witness ==
    \E i \in Feeders :
        /\ Returned(i, {"Advance"})
        /\ ~ op[i].cmd.has_length
        /\ op[i].en0
        /\ op[i].res = ErrArg("InvalidFeedLength", V(3))
\* The angles of the servo calls of feeder i's latest operation, in order.
MoveAngles(i) == [k \in 1 .. Len(moves[i]) |-> moves[i][k].angle]

\* Feeder i is in a run of advances that started at offset 0 with
\* always_retract false and in which no servo call has failed.
InBoundaryRun(i) ==
    /\ op[i].started
    /\ op[i].cmd.type \in {"Advance", "Auto"}
    /\ op[i].en0
    /\ track[i].fedOk

\* C6: with always_retract false on an enabled feeder, in a run of successful
\* advances that starts at advance_offset 0, a step that brings the length
\* fed so far to 2 modulo 4 mm moves the servo to half_advanced_angle, a step
\* that brings it to 0 moves it to advanced_angle and next to retract_angle,
\* and there is no other retract.  Feeding 4 mm gives [advanced, retract];
\* feeding 2 mm and again 2 mm gives [half] and then [advanced, retract].
C6_BoundaryRetraction ==
    \A i \in Feeders :
        InBoundaryRun(i) =>
            LET mv == moves[i]
                cfg == config[i]
                ok == op[i].res = OkNone
            IN /\ \A k \in 1 .. Len(mv) :
                    /\ (mv[k].role = "advance" /\ mv[k].fed = V(StepLength))
                            => mv[k].angle = cfg.half_advanced_angle
                    /\ (mv[k].role = "advance" /\ mv[k].fed = 0) =>
                            /\ mv[k].angle = cfg.advanced_angle
                            /\ k < Len(mv) => mv[k + 1].role = "retract"
                            /\ k = Len(mv) => fpc[i] = "settle_advance"
                    /\ mv[k].role = "advance" => mv[k].fed \in {0, V(StepLength)}
                    /\ mv[k].role = "retract" =>
                            /\ mv[k].angle = cfg.retract_angle
                            /\ k > 1
                            /\ mv[k - 1].role = "advance"
                            /\ mv[k - 1].fed = 0
               /\ (ok /\ op[i].off0 = 0 /\ OpLength(i) = V(HoleLength)) =>
                    MoveAngles(i) = << cfg.advanced_angle, cfg.retract_angle >>
               /\ (ok /\ op[i].off0 = 0 /\ OpLength(i) = V(StepLength)) =>
                    MoveAngles(i) = << cfg.half_advanced_angle >>
               /\ (ok /\ op[i].off0 = V(StepLength)
                      /\ OpLength(i) = V(StepLength)) =>
                    MoveAngles(i) = << cfg.advanced_angle, cfg.retract_angle >>

\* The second of two 2 mm feeds has returned after [advanced, retract].
C6_Witness ==
    \E i \in Feeders :
        /\ InBoundaryRun(i)
        /\ op[i].res = OkNone
        /\ op[i].off0 = V(StepLength)
        /\ OpLength(i) = V(StepLength)
        /\ Len(moves[i]) = 2
        /\ advance_offset[i] = 0
\* Feeder i's latest operation is an advance under always_retract.
AlwaysRetractOp(i) ==
    /\ op[i].started
    /\ op[i].cmd.type \in {"Advance", "Auto"}
    /\ config[i].always_retract

\* Every move of feeder i's latest advance that the servo accepted is
\* followed at once by a set_angle(retract_angle) call, or is being settled.
RetractFollows(i) ==
    \A k \in 1 .. Len(moves[i]) :
        (moves[i][k].role = "advance" /\ moves[i][k].ok) =>
            /\ k < Len(moves[i]) =>
                    /\ moves[i][k + 1].role = "retract"
                    /\ moves[i][k + 1].angle = config[i].retract_angle
            /\ k = Len(moves[i]) => fpc[i] = "settle_advance"

\* C7 as stated: with always_retract true every sub-step move of an advance
\* is immediately followed by a move to retract_angle, and advance_offset is
\* 0 when the advance returns.
C7_OffsetZeroOnReturn ==
    \A i \in Feeders :
        AlwaysRetractOp(i) =>
            /\ RetractFollows(i)
            /\ op[i].res # Pending => advance_offset[i] = 0

\* C7 as amended: with always_retract true every sub-step move the servo
\* accepts is immediately followed by a set_angle(retract_angle) call, and
\* advance_offset is 0 when an advance that had a length to feed returns Ok;
\* an advance that is rejected, fails or has nothing to feed returns with
\* advance_offset at 0 or at the value it had when the advance began.
C7_AlwaysRetract ==
    \A i \in Feeders :
        AlwaysRetractOp(i) =>
            /\ RetractFollows(i)
            /\ (op[i].res = OkNone /\ OpLength(i) > 0) => advance_offset[i] = 0
            /\ op[i].res # Pending => advance_offset[i] \in {0, op[i].off0}

\* A 6 mm advance under always_retract has returned Ok after two sub-steps,
\* each followed by its retract.
C7_Witness ==
    \E i \in Feeders :
        /\ AlwaysRetractOp(i)
        /\ op[i].res = OkNone
        /\ Len(moves[i]) = 4
        /\ advance_offset[i] = 0
\* The actor of feeder i takes a feedback edge in this step, on an enabled
\* feeder, and the edge ends a press it saw begin, held for track[i].pulse
\* ms, with no advance in between.
HandlesPulse(i) ==
    /\ fpc[i] = "idle"
    /\ edge[i]
    /\ ~ edge'[i]
    /\ enabled[i]
    /\ track[i].pulse >= 0

\* C8: on an enabled feeder a press of the feedback switch that is held for
\* 250 ms (any time from MIN_PULSE to MAX_PULSE) and released triggers
\* exactly one autonomous advance, of config.feed_length; a press held for
\* 600 ms or for 10 ms (any time outside that range) triggers none.
C8_PulseTriggersAdvance ==
    [][\A i \in Feeders :
          HandlesPulse(i) =>
              IF track[i].pulse >= MIN_PULSE /\ track[i].pulse <= MAX_PULSE
              THEN /\ track'[i].autos = track[i].autos + 1
                   /\ op'[i].cmd = AutoCmd
                   /\ \/ /\ fpc'[i] = "settle_advance"
                         /\ adv'[i].auto
                         /\ adv'[i].length = config[i].feed_length
                      \/ /\ fpc'[i] = "idle"
                         /\ ~ op'[i].res.ok
              ELSE /\ track'[i].autos = track[i].autos
                   /\ fpc'[i] = "idle"
                   /\ moves'[i] = moves[i]
                   /\ op'[i] = op[i]]_vars

\* A press held 250 ms has made an enabled feeder advance once, by
\* config.feed_length, on its own.
C8_Witness ==
    \E i \in Feeders :
        /\ track[i].autos = 1
        /\ op[i].cmd = AutoCmd
        /\ op[i].en0
        /\ op[i].res = OkNone
        /\ last_event[i] = NoEvent
        /\ Len(moves[i]) >= 1
\* The config line of a report carries all nine values of cfg.
Reports(l, cfg) == l.cfg = cfg /\ ValuesIn(l) = 9

\* C10: after a set_config(c) that succeeded, and until the next one that
\* succeeds, every get_config on that feeder returns c and every report
\* (M621) of that feeder carries c in all nine fields.
C10_ConfigRoundTrip ==
    \A i \in Feeders :
        lastSet[i] # NoConfig =>
            /\ Returned(i, {"GetConfig"}) => op[i].res = Ok(lastSet[i])
            /\ \A k \in 1 .. Len(output) :
                    (output[k].kind = "config" /\ output[k].index = i
                        /\ output[1].kind # "header")
                        => Reports(output[k], lastSet[i])
\* The handlers handle_line dispatches to.
LineHandlers == {"M600", "M603", "M610", "M620", "M621"}

\* In this step handle_line returns: at once, or on a feeder's response.
LineHandled ==
    /\ disp'.pc = "idle"
    /\ \/ disp.pc = "idle" /\ nEvents' = nEvents + 1
       \/ disp.pc = "wait" /\ disp.h \in LineHandlers

IsReply(l) == l.kind \in {"ok", "error"}

\* C9 as stated: every Line event the dispatcher processes yields exactly one
\* reply line on the output, which is ok or error: <message>, and nothing
\* else.
C9_ExactlyOneLine ==
    [][LineHandled => (Len(output') = 1 /\ IsReply(output'[1]))]_vars

\* C9 as amended: for a Line event that carries a command word the
\* dispatcher writes exactly one reply, ok or error: <message>, and it is
\* the last write for the event; only a report (M621) that succeeds makes
\* another write, the config report, before its ok.  For a Line event
\* without a command word it writes nothing.
C9_OneReplyPerCommand ==
    [][LineHandled =>
         LET line == disp'.line
             out == output'
         IN IF ~ line.has_command THEN out = << >>
            ELSE /\ Len(out) \in {1, 2}
                 /\ IsReply(out[Len(out)])
                 /\ Len(out) = 2 =>
                        /\ HandlerOf(line.command) = "M621"
                        /\ out[1].kind = "config"
                        /\ out[2] = OkLine]_vars

\* A report has been answered with its config line and then ok.
C9_Witness ==
    /\ disp.pc = "idle"
    /\ disp.line.has_command
    /\ HandlerOf(disp.line.command) = "M621"
    /\ Len(output) = 2
    /\ output[2] = OkLine

\* In this step the actor of feeder i takes a command of the given type
\* from its queue; handle_command answers it in the same step unless it is
\* an Advance that has to settle.
Takes(i, type) ==
    /\ cmdQ[i] # << >>
    /\ Head(cmdQ[i]).type = type
    /\ cmdQ'[i] = Tail(cmdQ[i])

\* The response the actor of feeder i sends in this step.
Sent(i) == respQ'[i][Len(respQ'[i])]

\* C11: SetConfig is all-or-nothing.  When the servo driver rejects the new
\* PWM limits the request fails with PwmValueOutOfRange and the feeder's
\* config and the servo's limits are as before the request; when it accepts
\* them the feeder's config is the submitted one and the servo's limits are
\* its pwm_0 and pwm_180.
C11_SetConfigAllOrNothing ==
    [][\A i \in Feeders :
         Takes(i, "SetConfig") =>
            LET new == Head(cmdQ[i]).cfg
            IN IF Sent(i).ok
               THEN /\ config'[i] = new
                    /\ limits'[i] = [zero |-> new.pwm_0,
                                     one_eighty |-> new.pwm_180]
               ELSE /\ Sent(i) = Err("PwmValueOutOfRange")
                    /\ config'[i] = config[i]
                    /\ limits'[i] = limits[i]]_vars

\* A feeder has rejected a config that differs from the one it holds, and
\* an earlier SetConfig had succeeded on it.
C11_Witness ==
    \E i \in Feeders :
        /\ Returned(i, {"SetConfig"})
        /\ op[i].res = Err("PwmValueOutOfRange")
        /\ config[i] # op[i].cmd.cfg
        /\ config[i] = lastSet[i]
        /\ limits[i] = [zero |-> config[i].pwm_0,
                        one_eighty |-> config[i].pwm_180]

\* In this step handle_m620 receives the answer to its set_config and
\* returns.
M620SetAnswered ==
    /\ disp.pc = "wait"
    /\ disp.h = "M620"
    /\ disp.phase = "set"
    /\ disp'.pc = "idle"

\* C12: the set-config handler (M620) writes ConfigStore only after the
\* feeder's SetConfig returned success, and what it writes is the merged
\* config the feeder accepted.  When SetConfig fails the store is not written
\* and the line is answered with that error; when SetConfig succeeds the line
\* is answered ok with the store written, or, the store write having failed,
\* with the ConfigSetError line and no ok.
C12_StoreAfterSetConfig ==
    [][/\ store' # store =>
            /\ M620SetAnswered
            /\ Head(respQ[disp.idx]) = OkNone
            /\ lastSet[disp.idx] = disp.cfg
            /\ store' = [store EXCEPT ![disp.idx] = disp.cfg]
       /\ M620SetAnswered =>
            LET r == Head(respQ[disp.idx])
            IN IF ~ r.ok
               THEN store' = store /\ output' = << ErrorLine(r) >>
               ELSE \/ /\ store'[disp.idx] = disp.cfg
                       /\ output' = << OkLine >>
                    \/ output' = << ErrorLine(Err("ConfigSetError")) >>]_vars

\* An M620 was answered with the ConfigSetError line: the feeder holds the
\* merged config and the store does not.
C12_Witness ==
    /\ disp.pc = "idle"
    /\ disp.line.has_command
    /\ HandlerOf(disp.line.command) = "M620"
    /\ output = << ErrorLine(Err("ConfigSetError")) >>
    /\ \E i \in Feeders :
            /\ config[i] = lastSet[i]
            /\ config[i] # FeederNewConfig
            /\ store[i] # config[i]
            /\ config[i] # StoreGet(i).cfg

\* The argument letter of each config field in handle_m620.
FieldLetter ==
    [advanced_angle |-> "A", half_advanced_angle |-> "B",
     retract_angle |-> "C", feed_length |-> "F", settle_time |-> "U",
     pwm_0 |-> "V", pwm_180 |-> "W", ignore_feeback_pin |-> "X",
     always_retract |-> "Y"]

\* The value a field takes from the value of its argument: a flag is set
\* by any value but zero, settle_time is cast to u32.
FieldOf(field, value) ==
    IF field \in {"ignore_feeback_pin", "always_retract"} THEN value # 0
    ELSE IF field = "settle_time" THEN value \div Scale
    ELSE value

\* In this step the actor of feeder i accepts the set_config of an M620.
M620Accepted(i) ==
    /\ Takes(i, "SetConfig")
    /\ disp.pc = "wait"
    /\ disp.h = "M620"
    /\ disp.idx = i
    /\ Sent(i).ok

\* C13: when the feeder accepts the set_config of an M620, each config field
\* named by an argument of the line takes that argument's value and every
\* other field keeps the value the feeder held immediately before; and when
\* the M620 is answered ok, ConfigStore holds for that feeder the config the
\* feeder then holds.
C13_PartialUpdate ==
    [][/\ \A i \in Feeders :
            M620Accepted(i) =>
                \A f \in DOMAIN FieldLetter :
                    LET named == {k \in DOMAIN disp.line.arguments :
                                    disp.line.arguments[k].letter
                                        = FieldLetter[f]}
                    IN IF named = {}
                       THEN config'[i][f] = config[i][f]
                       ELSE \E k \in named :
                               /\ \A j \in named : j <= k
                               /\ config'[i][f] =
                                    FieldOf(f, disp.line.arguments[k].value)
       /\ (M620SetAnswered /\ output' = << OkLine >>) =>
            store'[disp.idx] = config'[disp.idx]]_vars

\* An M620 that names some fields and not others was answered ok: the feeder
\* holds a config that differs from the one it was built with and from the
\* one loaded at startup, and the store holds the same.
C13_Witness ==
    /\ disp.pc = "idle"
    /\ disp.line.has_command
    /\ HandlerOf(disp.line.command) = "M620"
    /\ HasArg(disp.line.arguments, "A")
    /\ ~ HasArg(disp.line.arguments, "F")
    /\ output = << OkLine >>
    /\ \E i \in Feeders :
            /\ store[i] = config[i]
            /\ config[i].advanced_angle
                    = ArgValue(disp.line.arguments, "A")
            /\ config[i].advanced_angle # FeederNewConfig.advanced_angle
            /\ config[i].feed_length = FeederNewConfig.feed_length

\* In this step run receives a Line event: handle_line runs up to the
\* handler's first request or to its return.
ReceivesLine ==
    /\ disp.pc = "idle"
    /\ nEvents' = nEvents + 1
    /\ disp'.h \notin {"connect", "disconnect"}

\* The positions of the arguments of a line its handler does not recognise.
Unrecognised(line) ==
    {k \in DOMAIN line.arguments :
        line.arguments[k].letter \notin HandlerLetters(HandlerOf(line.command))}

\* C14: a line for M600, M603, M610, M620 or M621 with an argument letter
\* its handler does not recognise is answered with InvalidArgument of the
\* first such letter and has no effect: handle_line returns without a
\* request to any feeder, ConfigStore is not written and no feeder changes,
\* whatever valid arguments precede or follow the bad one.
C14_InvalidArgumentNoEffect ==
    [][LET line == disp'.line
       IN (/\ ReceivesLine
           /\ line.has_command
           /\ HandlerOf(line.command) \in LineHandlers
           /\ Unrecognised(line) # {}) =>
              /\ disp'.pc = "idle"
              /\ \E k \in Unrecognised(line) :
                    /\ \A j \in Unrecognised(line) : k <= j
                    /\ output' = << ErrorLine(ErrWord("InvalidArgument",
                                        line.arguments[k].letter, 0)) >>
              /\ UNCHANGED << cmdQ, respQ, store, feederVars >>]_vars

\* A config line with a bad letter between valid arguments was refused while
\* the addressed feeder stands enabled with the config it had, and no
\* request is pending anywhere.
C14_Witness ==
    /\ disp.pc = "idle"
    /\ disp.line.has_command
    /\ HandlerOf(disp.line.command) = "M620"
    /\ Unrecognised(disp.line) # {}
    /\ \E k \in Unrecognised(disp.line) :
            \E j, l \in DOMAIN disp.line.arguments \ Unrecognised(disp.line) :
                j < k /\ k < l
    /\ Len(output) = 1
    /\ output[1].err = "InvalidArgument"
    /\ \A i \in Feeders : cmdQ[i] = << >> /\ respQ[i] = << >>
    /\ \E i \in Feeders : enabled[i] /\ lastSet[i] = config[i]
                              /\ ~ config[i].always_retract

\* The handlers that resolve a feeder index.
IndexHandlers == {"M600", "M603", "M620", "M621"}

\* In this step handle_line returns with the error r, having sent no request.
Refused(r) ==
    /\ disp'.pc = "idle"
    /\ output' = << ErrorLine(r) >>
    /\ UNCHANGED << cmdQ, respQ >>

\* The positions of the index arguments of a line.
IndexArgs(line) ==
    {k \in DOMAIN line.arguments : line.arguments[k].letter = "N"}

Budget == IF scenario = "host" THEN MaxEvents ELSE MaxSwitchEvents

\* handle_line has answered its line with an error line and run is back at
\* receive.
ErrorAnswered ==
    /\ disp.pc = "idle"
    /\ disp.line.has_command
    /\ Len(output) = 1
    /\ output[1].kind = "error"

\* run can take the next event and start its handler: it is at receive and
\* no send of a first request would block.
AtReceive ==
    /\ disp.pc = "idle"
    /\ \A i \in Feeders : Len(cmdQ[i]) < ChannelCapacity

Outstanding(i) ==
    Len(cmdQ[i]) + Len(respQ[i])
        + (IF fpc[i] # "idle" /\ ~ adv[i].auto THEN 1 ELSE 0)

\* C17: for every feeder channel at most one request is outstanding in
\* every reachable state, so neither queue of capacity 2 is ever full and no
\* send on either queue blocks.
C17_OneOutstandingRequest ==
    \A i \in Feeders :
        /\ Outstanding(i) <= 1
        /\ Len(cmdQ[i]) < ChannelCapacity
        /\ Len(respQ[i]) < ChannelCapacity

\* The actor of a feeder is in the middle of an Advance the dispatcher
\* waits for (the one outstanding request, in neither queue) while an edge
\* of its feedback pin is pending.
C17_Witness ==
    \E i \in Feeders :
        /\ fpc[i] = "settle_retract"
        /\ ~ adv[i].auto
        /\ disp.pc = "wait"
        /\ disp.idx = i
        /\ Outstanding(i) = 1
        /\ level[i] # op[i].fb0

\* The FeederCommand of the client call the dispatcher is waiting in.
CallType(d) ==
    CASE d.h \in {"connect", "M621"} -> "GetConfig"
      [] d.h = "M620" -> IF d.phase = "get" THEN "GetConfig" ELSE "SetConfig"
      [] d.h = "init" -> "SetConfig"
      [] d.h \in {"disconnect", "M610"} -> "Enable"
      [] d.h = "M600" -> "Advance"
      [] d.h = "M603" -> "SetServoAngle"
      [] OTHER -> "none"

\* The type of the command the actor of feeder i answers in this step: the
\* one it takes from the queue, or the Advance it was settling in.
Answering(i) ==
    IF fpc[i] = "idle" THEN Head(cmdQ[i]).type ELSE "Advance"

\* C18: each client call sends one command, on a channel with nothing else
\* outstanding, and returns the response the actor produced for it: the
\* actor sends a response only for the command of the call the dispatcher
\* is waiting in, Some(config) (its own config) to GetConfig and None to
\* every other command that succeeds, so no call returns
\* InvalidFeederCommandResponse.
C18_CallGetsItsResponse ==
    [][\A i \in Feeders :
         /\ Len(cmdQ'[i]) > Len(cmdQ[i]) =>
                /\ Outstanding(i)' = 1
                /\ disp'.pc = "wait" /\ disp'.idx = i
                /\ cmdQ'[i][1].type = CallType(disp')
         /\ Len(respQ'[i]) > Len(respQ[i]) =>
                /\ respQ[i] = << >> /\ cmdQ'[i] = << >>
                /\ disp.pc = "wait" /\ disp.idx = i
                /\ Answering(i) = CallType(disp)
                /\ IF Answering(i) = "GetConfig"
                   THEN Sent(i) = Ok(config[i])
                   ELSE Sent(i).cfg = NoConfig
         /\ Len(respQ'[i]) < Len(respQ[i]) =>
                /\ disp.pc = "wait" /\ disp.idx = i
                /\ LET r == Head(respQ[i])
                   IN IF CallType(disp) = "GetConfig"
                      THEN ClientExpectSome(r) = r
                      ELSE ClientExpectNone(r) = r
                /\ \A k \in DOMAIN output' :
                        output'[k].err # "InvalidFeederCommandResponse"]_vars

\* A handler that makes two calls on one feeder, get_config and then
\* set_config, got Some(config) and then None and answered ok.
C18_Witness ==
    /\ disp.pc = "idle"
    /\ disp.line.has_command
    /\ HandlerOf(disp.line.command) = "M620"
    /\ output = << OkLine >>
    /\ \E i \in Feeders :
            /\ Returned(i, {"SetConfig"})
            /\ op[i].res = OkNone
            /\ op[i].cmd.cfg = config[i]
            /\ op[i].cmd.cfg # FeederNewConfig
            /\ cmdQ[i] = << >> /\ respQ[i] = << >>

\* The scenario "M610 S1, then the given M600 line for the last feeder" has
\* run to its end from startup, with the feedback input reading false: two
\* events were handled, the second is the line, and the feeder is enabled,
\* which only an M610 S1 as the first event brings about.
ScenarioRan(line) ==
    /\ scenario = "host"
    /\ nEvents = 2
    /\ disp = DispHandled(line)
    /\ enabled[NumFeeders - 1]
    /\ ~ level[NumFeeders - 1]

FeedDefault == LineOf(600, << Word("N", V(NumFeeders - 1)) >>)

FeedFour ==
    LineOf(600, << Word("N", V(NumFeeders - 1)), Word("F", V(HoleLength)) >>)

\* C19 as stated: with the default config, M610 S1 followed by M600 N1 (no
\* F argument) makes feeder 1's servo receive exactly the default
\* advanced_angle and then the default retract_angle, leaves feeder 0's
\* servo untouched, and produces the output ok, ok.
C19_DefaultFeedFullStroke ==
    ScenarioRan(FeedDefault) =>
        /\ MoveAngles(NumFeeders - 1)
                = << FeederConfigDefault.advanced_angle,
                     FeederConfigDefault.retract_angle >>
        /\ moves[0] = << >>
        /\ output = << OkLine >>

\* C19 as amended: with the default config (feed_length 2 mm), M610 S1
\* followed by M600 N1 makes feeder 1's servo receive the default
\* half_advanced_angle, followed by the default retract_angle only when the
\* config loaded at startup has always_retract set; followed by M600 N1 F4
\* it makes the servo receive the default advanced_angle and then the
\* default retract_angle.  Either way feeder 0's servo is untouched and the
\* second line is answered ok like the first.
C19_DefaultFeedHalfStroke ==
    /\ ScenarioRan(FeedDefault) =>
        /\ config[NumFeeders - 1].feed_length
                = FeederConfigDefault.feed_length
        /\ MoveAngles(NumFeeders - 1)
                = IF config[NumFeeders - 1].always_retract
                  THEN << FeederConfigDefault.half_advanced_angle,
                          FeederConfigDefault.retract_angle >>
                  ELSE << FeederConfigDefault.half_advanced_angle >>
        /\ moves[0] = << >>
        /\ output = << OkLine >>
    /\ ScenarioRan(FeedFour) =>
        /\ MoveAngles(NumFeeders - 1)
                = << FeederConfigDefault.advanced_angle,
                     FeederConfigDefault.retract_angle >>
        /\ moves[0] = << >>
        /\ output = << OkLine >>

\* The scenario has run with the defaults of Feeder::new and of the test
\* store: the servo of feeder 1 was moved once, to the half angle, and the
\* feeder stands at offset 2 mm.
C19_Witness ==
    /\ ScenarioRan(FeedDefault)
    /\ config[NumFeeders - 1] = FeederNewConfig
    /\ Len(moves[NumFeeders - 1]) = 1
    /\ advance_offset[NumFeeders - 1] = V(StepLength)
    /\ op[NumFeeders - 1].res = OkNone

\* The config feeder i holds once initialize_feeder_configs is through with
\* it: the one the store returns if the load and the set_config succeed,
\* the config of Feeder::new otherwise.
StartupConfig(i) ==
    IF StoreGet(i).ok
        /\ StoreGet(i).cfg.pwm_0 <= V(COUNTS_PER_PERIOD)
        /\ StoreGet(i).cfg.pwm_180 <= V(COUNTS_PER_PERIOD)
    THEN StoreGet(i).cfg
    ELSE FeederNewConfig

\* initialize_feeder_configs is through with feeder i.
StartupDone(i) == disp.pc = "idle" \/ (disp.h = "init" /\ i < disp.idx)

\* C20: at startup, before any event is handled, the dispatcher sends each
\* feeder the config ConfigStore returns for its index; a feeder whose load
\* or whose SetConfig fails keeps the config it was built with, the feeders
\* after it are initialised all the same, and the event loop starts: the
\* startup never waits without a request outstanding, and it ends at
\* receive with every feeder at its startup config.
C20_StartupConfigs ==
    /\ disp.pc # "idle" /\ disp.h = "init" => nEvents = 0
    /\ nEvents = 0 =>
        \A i \in Feeders :
            /\ StartupDone(i) =>
                    /\ config[i] = StartupConfig(i)
                    /\ limits[i] = [zero |-> config[i].pwm_0,
                                    one_eighty |-> config[i].pwm_180]
            /\ (disp.pc = "wait" /\ disp.idx = i) =>
                    /\ StoreGet(i).ok
                    /\ Outstanding(i) = 1
                    /\ cmdQ[i] \in {<< >>, << SetConfigCmd(StoreGet(i).cfg) >>}
                    /\ respQ[i] # << >> =>
                            /\ op[i].cmd = SetConfigCmd(StoreGet(i).cfg)
                            /\ config[i] = StartupConfig(i)
            /\ ~ StartupDone(i) /\ cmdQ[i] # << >> =>
                    config[i] = FeederNewConfig

\* The event loop has started although the first feeder's stored config
\* was rejected by the servo driver: that feeder holds the config it was
\* built with, the next one holds the store's default.
C20_Witness ==
    /\ disp.pc = "idle"
    /\ nEvents = 0
    /\ store[0] = StoredBadPwm
    /\ lastSet[0] = NoConfig
    /\ config[0] = FeederNewConfig
    /\ config[NumFeeders - 1] = FlashDefaultConfig
    /\ lastSet[NumFeeders - 1] = FlashDefaultConfig

\* The dispatcher is inside handle_connect before or after this step.
InConnect == disp.h = "connect" \/ disp'.h = "connect"

\* In this step handle_connect returns.
ConnectHandled == disp.h = "connect" /\ disp.pc = "wait" /\ disp'.pc = "idle"

\* What handle_connect has written is the header, then for every feeder in
\* index order a config line of that index, then "ready".
ConnectOutput(out) ==
    /\ Len(out) = NumFeeders + 2
    /\ out[1] = HeaderLine
    /\ \A i \in Feeders :
            out[i + 2].kind = "config" /\ out[i + 2].index = i
    /\ out[NumFeeders + 2] = ReadyLine

\* The line is a whole M620-shaped line with the feeder's current config.
CarriesCurrentConfig(l, i) == Reports(l, config[i]) /\ LineComplete(l)

\* C21: handling Connect writes the header line, then one M620-shaped line
\* per feeder in increasing index order that carries the feeder's current
\* config, then the ready line, and no step of it changes feeder state.
C21_ConnectReport ==
    [][InConnect =>
         /\ UNCHANGED << config, enabled, advance_offset, last_event,
                         limits >>
         /\ ConnectHandled =>
                /\ ConnectOutput(output')
                /\ \A i \in Feeders :
                        CarriesCurrentConfig(output'[i + 2], i)]_vars

\* The config lines handle_connect has written so far for this Connect.
ConnectLines ==
    IF output # << >> /\ output[1] = HeaderLine
    THEN {k \in 2 .. Len(output) : output[k].kind = "config"}
    ELSE {}

\* C22: every config line written while handling Connect is the line of the
\* config that ConfigStore holds, or defaults to, for the line's index.
C22_ConnectEmitsPersisted ==
    \A k \in ConnectLines :
        /\ StoreGet(output[k].index).ok
        /\ output[k].cfg = StoreGet(output[k].index).cfg

\* This step is a call of handle_byte.
ByteHandled == rx'.n = rx.n + 1

\* C24: a newline byte ('\n' or '\r') received while the reader is not in
\* overflow returns as the line exactly the bytes received since the
\* previous newline (or since creation), and the next call starts from an
\* empty line buffer; a call that returns a line is such a call.
C24_LineIsWhatWasReceived ==
    [][ByteHandled =>
         /\ (is_newline(rx'.b) /\ ~ reader.in_overflow) =>
                /\ ret' = RetLine(rx.pending)
                /\ reader'.new_line \/ reader'.input_buffer = << >>
         /\ ret'.kind = "line" =>
                is_newline(rx'.b) /\ ~ reader.in_overflow]_vars

\* C25: the line buffer never holds more than its capacity; the newline
\* that ends a line longer than the capacity returns InputBufferOverflow
\* and leaves an empty buffer, and the newline that ends the line after it
\* returns that line whole and nothing else.
C25_OverflowReportedOnce ==
    [][ByteHandled =>
         /\ Len(reader'.input_buffer) <= ReaderCapacity
         /\ (is_newline(rx'.b) /\ Len(rx.pending) > ReaderCapacity) =>
                /\ ret' = RetOverflow
                /\ reader'.input_buffer = << >>
                /\ ~ reader'.in_overflow
         /\ (/\ is_newline(rx'.b)
             /\ rx.last = "InputBufferOverflow"
             /\ Len(rx.pending) <= ReaderCapacity) =>
                ret' = RetLine(rx.pending)]_vars

\* C26: handle_byte never panics, and the partial-character accumulator
\* never holds more than 4 bytes.
C26_NeverPanics ==
    /\ ret # RetPanic
    /\ reader.char_assembler.len <= 4

\* Neither the interface nor the dispatcher has anything left to do: no
\* event is queued, no output, control change or packet is waiting, and run
\* is not about to start handle_connection again.
LinkSettled ==
    /\ eventQ = << >>
    /\ pipe = PipeInit
    /\ iface.pc # "send"
    /\ ~ usb.changed
    /\ usb.rx = "none"
    /\ ~ (iface.pc = "wait_connection" /\ usb.configured)

\* C23: once the link has ended (DTR dropped, or handle_connection returned
\* because the endpoint is disabled or on another error) and the host has
\* not enabled the feeders again, every feeder is disabled as soon as the
\* interface and the dispatcher have settled.
C23_LinkGoneDisables ==
    (iface.ended # "" /\ LinkSettled) => \A i \in Feeders : ~ enabled[i]

\* Feeder i is inside advance, suspended at one of its settle waits.
Advancing(i) == fpc[i] # "idle"

\* s is t or the beginning of t.
IsPrefix(s, t) == Len(s) <= Len(t) /\ SubSeq(t, 1, Len(s)) = s

\* C27: from the start of an advance of feeder i, requested or triggered by
\* feedback, until it has finished or failed, the actor takes no command
\* from its channel and handles no feedback edge, its operation stays the
\* same one, and every servo move made is added to the moves of that
\* operation.
C27_ActorSerialized ==
    [][\A i \in Feeders :
         Advancing(i) =>
            /\ ~ \E t \in {"SetConfig", "GetConfig", "SetServoAngle",
                           "Advance", "Enable"} : Takes(i, t)
            /\ edge[i] => edge'[i]
            /\ op'[i].cmd = op[i].cmd
            /\ IsPrefix(moves[i], moves'[i])
            /\ config'[i] = config[i]
            /\ enabled'[i] = enabled[i]]_vars

\* A request is waiting in the channel while an advance that feedback
\* triggered is at the settle wait after its first move.
C27_Witness ==
    \E i \in Feeders :
        /\ fpc[i] = "settle_advance"
        /\ adv[i].auto
        /\ cmdQ[i] # << >>
        /\ Len(moves[i]) = 1

\* The actor of feeder i waits in select for its next event.
ActorWaiting(i) == fpc[i] = "idle"

\* The last servo call of feeder i's latest operation is a retract move of
\* advance that the servo made.
EndedWithRetract(i) ==
    /\ moves[i] # << >>
    /\ moves[i][Len(moves[i])].role = "retract"
    /\ moves[i][Len(moves[i])].ok

\* C28: whenever the actor waits for its next event advance_offset is at
\* least 0 and less than 4 mm, and it is 0 when the last thing advance did
\* to the servo was a retract move.
C28_OffsetInRange ==
    \A i \in Feeders :
        ActorWaiting(i) =>
            /\ advance_offset[i] >= 0
            /\ advance_offset[i] < V(HoleLength)
            /\ EndedWithRetract(i) => advance_offset[i] = 0

\* An advance that began at offset 2 mm has ended with a retract move, on a
\* feeder whose earlier advance had left it half advanced.
C28_Witness ==
    \E i \in Feeders :
        /\ ActorWaiting(i)
        /\ EndedWithRetract(i)
        /\ op[i].off0 = V(StepLength)
        /\ op[i].res = OkNone

\* C29: update(state) returns true exactly when the state recorded before
\* the call was false, was recorded 50 ms to 500 ms ago, and the new state
\* is true; whatever it returns, the event recorded after the call is
\* (state, now).
C29_UpdateIffPulse ==
    rec.called =>
        /\ rec.ret <=> (/\ rec.last.some
                        /\ ~ rec.last.state
                        /\ rec.last.age >= MIN_PULSE
                        /\ rec.last.age <= MAX_PULSE
                        /\ rec.state)
        /\ last_event[RecFeeder] = SomeEvent(rec.state)

\* In this step an advance that a request started returns to
\* handle_command: at once, or after its last settle.
AdvanceReturns(i) ==
    /\ Takes(i, "Advance") \/ (Advancing(i) /\ ~ adv[i].auto)
    /\ ~ Advancing(i)'

\* In this step an advance, requested or triggered by feedback, returns.
AnyAdvanceReturns(i) ==
    /\ \/ Takes(i, "Advance")
       \/ Advancing(i)
       \/ (ActorWaiting(i) /\ edge[i] /\ ~ edge'[i]
             /\ track'[i].autos = track[i].autos + 1)
    /\ ~ Advancing(i)'

\* In this step the actor handles a feedback transition.
FeedbackHandled(i) == ActorWaiting(i) /\ edge[i] /\ ~ edge'[i]

\* C30 as stated: the recognizer is reset, its last event cleared, when an
\* explicit advance request returns, whatever its result.
C30_ResetAfterEveryAdvance ==
    [][\A i \in Feeders :
         AdvanceReturns(i) => last_event'[i] = NoEvent]_vars

\* C30 as amended: the recognizer is reset when an advance, requested or
\* triggered by feedback, returns Ok, and the first feedback transition
\* handled after that starts no autonomous advance; a requested advance
\* that is rejected or fails leaves the recorded event as it is.
C30_ResetAfterSuccessfulAdvance ==
    [][\A i \in Feeders :
         /\ (AnyAdvanceReturns(i) /\ op'[i].res.ok) =>
                last_event'[i] = NoEvent
         /\ (AdvanceReturns(i) /\ ~ op'[i].res.ok) =>
                last_event'[i] = last_event[i]
         /\ (FeedbackHandled(i) /\ last_event[i] = NoEvent) =>
                /\ track'[i].autos = track[i].autos
                /\ ActorWaiting(i)'
                /\ moves'[i] = moves[i]
                /\ last_event'[i] = SomeEvent(level[i])]_vars

\* The switch was pressed before a requested advance that returned Ok and
\* released after it, and the release, the first transition handled after
\* the advance, began no autonomous advance.
C30_Witness ==
    \E i \in Feeders :
        /\ ActorWaiting(i)
        /\ op[i].cmd.type = "Advance"
        /\ op[i].res = OkNone
        /\ Len(moves[i]) >= 1
        /\ ~ op[i].fb0
        /\ nEdges = 2
        /\ level[i]
        /\ last_event[i] = SomeEvent(TRUE)
        /\ ~ edge[i]
        /\ track[i].autos = 0

\* A Result of the servo driver's own errors.
ServoError(r) ==
    (~ r.ok) /\ r.err \in {"AngleOutOfRange", "PwmValueOutOfRange"}

\* In this step handle_command of feeder i finishes a command: one it takes
\* and answers at once, or an Advance that was settling.
CommandEnds(i) ==
    /\ \/ \E t \in {"SetConfig", "GetConfig", "SetServoAngle", "Advance",
                    "Enable"} : Takes(i, t)
       \/ (Advancing(i) /\ ~ adv[i].auto)
    /\ ~ Advancing(i)'

\* In this step an advance that feedback triggered returns to
\* handle_feedback_state_change: at once, or after a settle.
AutoEnds(i) ==
    /\ \/ (Advancing(i) /\ adv[i].auto)
       \/ (FeedbackHandled(i) /\ track'[i].autos = track[i].autos + 1)
    /\ ~ Advancing(i)'

C31_WitnessAuto ==
    \E i \in Feeders :
        /\ ActorWaiting(i)
        /\ op[i].cmd.type = "Auto"
        /\ op[i].res = Err("AngleOutOfRange")
        /\ Len(moves[i]) = 2

\* What belongs to feeder j alone: its actor's state, its servo and input,
\* and its channel.
FeederState(j) ==
    << config[j], enabled[j], advance_offset[j], limits[j], fpc[j],
       adv[j].auto, adv[j].length, moves[j], op[j], cmdQ[j], respQ[j],
       level[j], edge[j] >>

\* Time passes in this step: no task runs and a settle timer runs down.
TimePasses == fpc' = fpc /\ adv' # adv

\* C32: feeders are independent of each other.  Whatever the other actors
\* are suspended in, an actor that waits in select with a feedback edge
\* pending can handle it, and one whose settle delay has expired can go on
\* with its advance; a step of one feeder's actor changes nothing that
\* belongs to another feeder; the settle delays of different feeders run
\* down together; and an advance that is settling for a request holds up
\* nothing but its own actor and the dispatcher, which waits for its answer.
C32_FeedersIndependent ==
    [][\A i \in Feeders :
         /\ (ActorWaiting(i) /\ edge[i]) => ENABLED HandleFeedback(i)
         /\ (Advancing(i) /\ adv[i].timer = 0) =>
                ENABLED (AfterAdvanceSettle(i) \/ AfterRetractSettle(i))
         /\ ActorStep(i) =>
                \A j \in Feeders \ {i} : FeederState(j)' = FeederState(j)
         /\ TimePasses =>
                \A j \in Feeders :
                    (Advancing(i) /\ Advancing(j)) =>
                        adv[i].timer - adv'[i].timer
                            = adv[j].timer - adv'[j].timer
         /\ (Advancing(i) /\ ~ adv[i].auto) =>
                /\ disp.pc = "wait" /\ disp.idx = i
                /\ \A j \in Feeders \ {i} :
                        ActorRunnable(j) => ENABLED ActorStep(j)]_vars

\* While the first feeder is still in a settle delay of the advance the
\* host requested, the last feeder has handled a pulse of its switch and
\* completed the advance the pulse triggered.
C32_Witness ==
    /\ fpc[0] = "settle_retract"
    /\ ~ adv[0].auto
    /\ adv[0].timer > 0
    /\ disp.pc = "wait" /\ disp.idx = 0
    /\ \E i \in Feeders \ {0} :
            /\ ActorWaiting(i)
            /\ op[i].cmd.type = "Auto"
            /\ op[i].res = OkNone
            /\ Len(moves[i]) = 1
            /\ track[i].autos = 1

\* The line handle_line is handling in this step: the one run receives, or
\* the one whose handler waits for a feeder.
LineInHand == IF disp.pc = "idle" THEN disp'.line ELSE disp.line

\* This step belongs to the handling of a line for M600, M603, M620 or M621,
\* from its receipt to the return of handle_line.
IndexLineStep ==
    /\ ReceivesLine \/ (disp.pc = "wait" /\ disp.h \in IndexHandlers)
    /\ LineInHand.has_command
    /\ HandlerOf(LineInHand.command) \in IndexHandlers

\* The feeders the line in hand does not name.
OtherFeeders ==
    IF HasArg(LineInHand.arguments, "N")
    THEN Feeders \ {CastInt(ArgValue(LineInHand.arguments, "N"))}
    ELSE Feeders

\* C33: a line for M600, M603, M620 or M621 with index i sends requests to
\* feeder i only.  In every step from its receipt to the return of
\* handle_line, the channel of every other feeder stays empty, the config
\* and the enabled flag of every other feeder and the ConfigStore entry of
\* every other index stay as they are, and the servo moves and the
\* advance_offset of another feeder change only through an advance its own
\* feedback triggered.
C33_OnlyTheIndexedFeeder ==
    [][IndexLineStep =>
         \A j \in OtherFeeders :
            /\ cmdQ[j] = << >> /\ cmdQ'[j] = << >>
            /\ respQ[j] = << >> /\ respQ'[j] = << >>
            /\ store'[j] = store[j]
            /\ config'[j] = config[j]
            /\ limits'[j] = limits[j]
            /\ enabled'[j] = enabled[j]
            /\ (moves'[j] # moves[j] \/ advance_offset'[j] # advance_offset[j])
                    => op'[j].cmd.type = "Auto"
            /\ scenario = "host" =>
                    /\ moves'[j] = moves[j]
                    /\ advance_offset'[j] = advance_offset[j]
                    /\ op'[j] = op[j]]_vars

\* An advance of the first feeder was requested with index 0 and has
\* returned Ok, and the last feeder still shows the advance it had made
\* before: its moves, and the offset that advance left.
C33_Witness ==
    /\ disp.pc = "idle"
    /\ disp.line.has_command
    /\ HandlerOf(disp.line.command) = "M600"
    /\ HasArg(disp.line.arguments, "N")
    /\ ArgValue(disp.line.arguments, "N") = 0
    /\ output = << OkLine >>
    /\ op[0].cmd.type = "Advance" /\ op[0].res = OkNone
    /\ Len(moves[0]) >= 1
    /\ \E j \in Feeders \ {0} :
            /\ op[j].cmd.type = "Advance" /\ op[j].res = OkNone
            /\ Len(moves[j]) = 1
            /\ advance_offset[j] = V(StepLength)
            /\ advance_offset[0] # advance_offset[j]

\* C34: the enabled flag of every feeder is false after construction, and it
\* changes only in a step in which the feeder's actor takes an Enable
\* command, to the state the command carries.  SetConfig, GetConfig,
\* SetServoAngle and Advance, feedback edges, advances that feedback
\* triggered, settle delays and operations that fail leave it as it is.
C34_EnabledOnlyByEnable ==
    /\ \A i \in Feeders : ~ enabled[i]
    /\ [][\A i \in Feeders :
            /\ enabled'[i] # enabled[i] =>
                    /\ Takes(i, "Enable")
                    /\ enabled'[i] = Head(cmdQ[i]).state
            /\ Takes(i, "Enable") => enabled'[i] = Head(cmdQ[i]).state
            /\ (CommandEnds(i) /\ ~ Takes(i, "Enable")) =>
                    enabled'[i] = enabled[i]
            /\ (AutoEnds(i) \/ FeedbackHandled(i)) => enabled'[i] = enabled[i]]_vars

\* An enabled feeder is still enabled after an advance that its feedback
\* triggered has failed on a servo error.
C34_Witness ==
    \E i \in Feeders :
        /\ enabled[i]
        /\ ActorWaiting(i)
        /\ op[i].cmd.type = "Auto"
        /\ ServoError(op[i].res)
        /\ op[i].en0

\* A continuation byte, 80..BF.
IsContinuation(b) == b >= 128 /\ b <= 191

\* w is the beginning (of length Len(w) <= n) of a well-formed UTF-8 byte
\* sequence of n bytes: the lead byte and the range of the second byte are
\* those of the Unicode standard's table of well-formed sequences.
BeginsWellFormed(w, n) ==
    /\ Len(w) >= 1 /\ Len(w) <= n
    /\ CASE n = 1 -> w[1] <= 127
         [] n = 2 -> w[1] >= 194 /\ w[1] <= 223
         [] n = 3 -> w[1] >= 224 /\ w[1] <= 239
         [] n = 4 -> w[1] >= 240 /\ w[1] <= 244
         [] OTHER -> FALSE
    /\ \A k \in 2 .. Len(w) : IsContinuation(w[k])
    /\ Len(w) >= 2 =>
            /\ w[1] = 224 => w[2] >= 160
            /\ w[1] = 237 => w[2] <= 159
            /\ w[1] = 240 => w[2] >= 144
            /\ w[1] = 244 => w[2] <= 143

WellFormedUtf8(w) == \E n \in 1 .. 4 : Len(w) = n /\ BeginsWellFormed(w, n)

\* The character a well-formed sequence encodes.
DecodeUtf8(w) ==
    CASE Len(w) = 1 -> w[1]
      [] Len(w) = 2 -> (w[1] - 192) * 64 + (w[2] - 128)
      [] Len(w) = 3 -> (w[1] - 224) * 4096 + (w[2] - 128) * 64 + (w[3] - 128)
      [] OTHER -> (w[1] - 240) * 262144 + (w[2] - 128) * 4096
                    + (w[3] - 128) * 64 + (w[4] - 128)

\* C35: when the bytes handed to an empty CharAssembler are a well-formed
\* UTF-8 sequence of 1 to 4 bytes, the calls before the last return None,
\* and the last call returns the character the sequence encodes and leaves
\* the assembler empty.
C35_YieldsEncodedChar ==
    (asm.n > 0 /\ ~ asm.panic) =>
        /\ (\E n \in 2 .. 4 : Len(asm.seq) < n /\ BeginsWellFormed(asm.seq, n))
                => asm.char = NoChar
        /\ WellFormedUtf8(asm.seq) =>
                /\ asm.char = SomeChar(DecodeUtf8(asm.seq))
                /\ asm.ca = CharAssemblerNew

\* C36: an advance that feedback triggered never puts anything on the
\* response channel, whether it succeeds or fails.  The response channel of
\* a feeder grows only in a step in which handle_command finishes a command,
\* and then by that command's one response, so the responses an actor has
\* sent are as many as the commands it has finished; handling a feedback
\* edge and every step of the advance it triggers leave the channel as it
\* is, and on a disabled feeder that advance fails with FeederDisabled
\* before any servo move.
C36_AutoAdvanceSendsNothing ==
    [][\A i \in Feeders :
         /\ Len(respQ'[i]) > Len(respQ[i]) <=> CommandEnds(i)
         /\ CommandEnds(i) => respQ'[i] = Append(respQ[i], op'[i].res)
         /\ (FeedbackHandled(i) \/ AutoEnds(i)
                \/ (Advancing(i) /\ adv[i].auto)) =>
                /\ Len(respQ'[i]) <= Len(respQ[i])
                /\ ~ CommandEnds(i)
         /\ (AutoEnds(i) /\ ~ enabled[i]
                /\ FeedLengthValid(config[i].feed_length)) =>
                /\ FeedbackHandled(i)
                /\ op'[i].res = Err("FeederDisabled")
                /\ moves'[i] = << >>
                /\ respQ' = respQ]_vars

\* A pulse of the switch of a disabled feeder was handled: the advance it
\* triggered failed with FeederDisabled, moved no servo and left nothing on
\* the response channel.
C36_Witness ==
    \E i \in Feeders :
        /\ ~ enabled[i]
        /\ ActorWaiting(i)
        /\ op[i].cmd.type = "Auto"
        /\ op[i].res = Err("FeederDisabled")
        /\ track[i].autos = 1
        /\ moves[i] = << >>
        /\ respQ[i] = << >>
        /\ nEdges = 2

\* No client call is in progress: the dispatcher is suspended in none, and
\* no command or response is left in a channel or in an actor's hands.
NoCallInProgress ==
    /\ disp.pc # "wait"
    /\ \A i \in Feeders : Outstanding(i) = 0

\* C37: every command a FeederClient sends is answered and the call
\* returns, under the fairness of LiveSpec (every task that is ready is
\* polled and settle timers expire): the dispatcher never stays suspended
\* in a client call, and no request stays outstanding on a channel, also
\* when feedback edges arrive while the command is queued or being handled.
\* Again and again no call is in progress.
C37_EveryCommandAnswered == []<>NoCallInProgress

\* A command waits in the channel of a feeder whose actor has a feedback
\* edge to handle first, and the dispatcher waits for the answer.
C37_Witness ==
    \E i \in Feeders :
        /\ ActorWaiting(i)
        /\ edge[i]
        /\ cmdQ[i] # << >>
        /\ Head(cmdQ[i]).type = "Advance"
        /\ disp.pc = "wait" /\ disp.idx = i

\* In this step the actor of feeder i takes the command at the head of its
\* queue.
TakesCommand(i) == cmdQ[i] # << >> /\ cmdQ'[i] = Tail(cmdQ[i])

\* C38: a command that is queued when a feedback edge wins the actor's
\* select is neither lost nor duplicated.  Handling the edge, and every
\* step of the advance it may trigger, leaves the queued commands where
\* they are; the queue changes only by a send at its tail or by the actor
\* taking its head; and the actor takes a command only when it is back in
\* select with no edge left to handle, and handles that command.
C38_QueuedCommandKept ==
    [][\A i \in Feeders :
         /\ FeedbackHandled(i) => cmdQ'[i] = cmdQ[i]
         /\ (Advancing(i) \/ edge[i]) => IsPrefix(cmdQ[i], cmdQ'[i])
         /\ cmdQ'[i] # cmdQ[i] =>
                \/ TakesCommand(i)
                \/ \E c \in {cmdQ'[i][Len(cmdQ'[i])]} :
                        cmdQ'[i] = Append(cmdQ[i], c)
         /\ TakesCommand(i) =>
                /\ ActorWaiting(i)
                /\ ~ edge[i]
                /\ op'[i].cmd = Head(cmdQ[i])
                /\ CommandEnds(i) \/ (Advancing(i)' /\ ~ adv'[i].auto)]_vars

\* The feedback edge won: the advance it triggered is at the settle wait
\* after its retract move while the Advance the dispatcher sent waits in
\* the queue.
C38_Witness ==
    \E i \in Feeders :
        /\ fpc[i] = "settle_retract"
        /\ adv[i].auto
        /\ cmdQ[i] = << AdvanceCmd(FALSE, 0, FALSE) >>
        /\ disp.pc = "wait" /\ disp.idx = i
        /\ op[i].cmd.type = "Auto"
        /\ Len(moves[i]) = 2

\* The dispatcher is suspended in write_all: the pipe is full and bytes of
\* its reply are still to be written.
DispatcherBlockedWriting == pipe.writing > 0 /\ pipe.len = OUTPUT_PIPE_LEN

\* The interface is suspended sending a Line event into the full channel.
TransportBlockedSendingLine ==
    /\ iface.pc = "send"
    /\ Head(iface.sending).kind = "Line"
    /\ EventRoom = 0

\* C39: in no reachable state is the dispatcher suspended writing a reply
\* into the full output pipe while the interface, the pipe's only reader,
\* is suspended sending a Line event into the full event channel.
C39_NeverBothSuspended ==
    ~ (DispatcherBlockedWriting /\ TransportBlockedSendingLine)

\* The events a step appends to the event channel.
EventsSent ==
    IF Len(eventQ') > Len(eventQ)
    THEN SubSeq(eventQ', Len(eventQ) + 1, Len(eventQ'))
    ELSE << >>

\* The DTR the interface read on the control change whose event it sends:
\* in this step, or before the send it was suspended in.
DtrRead == IF iface.pc = "send" THEN iface.new_connected ELSE usb.dtr

\* C40: in the events GCodeInterface sends, a Connect is never preceded by
\* a Connect as the last control event and a Disconnect always is, so they
\* alternate and the first is a Connect; a Connect is sent on a control
\* change that showed DTR true while the connected flag was false, a
\* Disconnect on one that showed DTR false while the flag was true.
C40_ConnectDisconnectAlternate ==
    [][\A k \in DOMAIN EventsSent :
          /\ EventsSent[k].kind = "Connect" =>
                /\ iface.control # "Connect"
                /\ DtrRead /\ ~ iface.connected
          /\ EventsSent[k].kind = "Disconnect" =>
                /\ iface.control = "Connect"
                /\ ~ DtrRead /\ iface.connected]_vars

\* The interface has sent Connect, Disconnect and Connect again: the last
\* two are in the channel.
C40_Witness ==
    /\ iface.control = "Connect"
    /\ eventQ = << DisconnectEvent, ConnectEvent >>

\* The Disconnect of a closed port was sent after a send the interface was
\* suspended in, the channel being full.
C40_WitnessSuspended ==
    /\ iface.control = "Disconnect"
    /\ Len(eventQ) = GCODE_CHANNEL_LEN
    /\ eventQ[GCODE_CHANNEL_LEN] = DisconnectEvent
    /\ eventQ[1].kind = "Line"

====
